---- MODULE Spec2Model ----
(***************************************************************************)
(* Authentication core of the FastAPI backend: rate limiter, account       *)
(* lockout, login state machine for users and admins, registration, and    *)
(* bearer-token resolution.  Time is counted in minutes.                   *)
(***************************************************************************)
EXTENDS Integers, Sequences, FiniteSets, TLC

\* ---------------------------------------------------------------- settings
MAX_LOGIN_ATTEMPTS == 5
LOCKOUT_DURATION_MINUTES == 30
RATE_LIMIT_ATTEMPTS == 5
RATE_LIMIT_WINDOW_MINUTES == 15
ACCESS_TOKEN_EXPIRE_MINUTES == 60

\* ------------------------------------------------------------------ bounds
\* Minutes the clock advances in one Tick, and the last instant explored.
TickMinutes == 15
MaxTime == 15
MaxTimeLock == 45
MaxTimeRate == 45
MaxTimeConc == 30
\* Login attempts explored per behaviour, by specification.
MaxLogins == 2
MaxLoginsLock == 7
MaxLoginsRate == 7
MaxLoginsConc == 6
MaxTimeAcct == 30
MaxLoginsAcct == 8
MaxLoginsReg == 2
MaxRowsReg == 3
MaxRowsUniq == 4
MaxActionsPerm == 5
MaxLoginsAudit == 3
MaxTimeAudit == 15
WinStep == 10
MaxTimeWin == 30
MaxLoginsWin == 7
MaxOpsFrame == 6
MaxTimeFrame == 15
MaxLoginsTwin == 6
MaxTimeTwin == 45
MaxOpsSess == 8
MaxTimeSess == 75
MaxIssuedAt == 15
MaxTimeTok == 90
MaxIds == 2

\* ------------------------------------------------------------------ values
NULL == 0 - 1
NoClient == "no-client"
NoPhone == "no-phone"
Kinds == {"user", "admin"}
Tasks == {"t1", "t2"}

\* A starlette Request: absent (None), or present with or without .client
NoRequest == [present |-> FALSE, client |-> NoClient]
Req(c) == [present |-> TRUE, client |-> c]

VARIABLES
    users,      \* rows of table users, in id order (id = index)
    admins,     \* rows of table admins, in id order
    store,      \* security._rate_limit_store: ip -> [count, reset_at]
    audit,      \* table audit_logs: its row count and the newest row
    now,        \* the clock, datetime.now(timezone.utc)
    tasks,      \* the request being handled by each task, and its response
    held,       \* the bearer token the client got from its last login
    rbac,       \* tables roles, permissions, role_permissions, admin_roles
    collections \* rows of table collections (their slugs), in id order

vars == <<users, admins, store, audit, now, tasks, held, rbac, collections>>

\* The shared state a handler reads and writes.
Shared == [users |-> users, admins |-> admins, store |-> store,
           audit |-> audit, now |-> now]

\* ------------------------------------------------------- security.py
hash_password(password) == <<"argon2", password>>

verify_password(plain_password, hashed_password) ==
    hashed_password = <<"argon2", plain_password>>

NoToken == [sub |-> "", exp |-> NULL, iat |-> NULL, signed |-> FALSE]

create_access_token(subject, t) ==
    [sub |-> subject, exp |-> t + ACCESS_TOKEN_EXPIRE_MINUTES, iat |-> t,
     signed |-> TRUE]

\* decode_access_token that never looks at exp.
decode_access_token_ignoring_exp(token, t) ==
    IF token.signed /\ token.exp # NULL /\ token.sub # ""
    THEN token ELSE NoToken

\* The payload, or NoToken for None (bad signature, expired, missing claim).
decode_access_token(token, t) ==
    IF token.signed /\ token.exp # NULL /\ token.sub # "" /\ t < token.exp
    THEN token ELSE NoToken

\* Line 61: the key under which a request is counted.
client_ip_of(request) ==
    IF request.client # NoClient THEN request.client ELSE "unknown"

\* Mutant: nothing is evicted.
cleanup_expired_none(st, t) == st

\* Mutant: the eviction keeps the expired buckets and drops the live ones.
cleanup_expired_inverted(st, t) ==
    [ip \in {k \in DOMAIN st : st[k].reset_at < t} |-> st[ip]]

\* Lines 65-70: drop every bucket whose window ended before t.
cleanup_expired(st, t) ==
    [ip \in {k \in DOMAIN st : ~(st[k].reset_at < t)} |-> st[ip]]

\* Mutant: a rejection starts the bucket's window again.
check_current_ip_reject_restarts_window(st, ip, t) ==
    IF ip \in DOMAIN st
    THEN IF st[ip].reset_at > t
         THEN IF st[ip].count >= RATE_LIMIT_ATTEMPTS
              THEN [allowed |-> FALSE,
                    store |-> [st EXCEPT ![ip].reset_at =
                                  t + RATE_LIMIT_WINDOW_MINUTES]]
              ELSE [allowed |-> TRUE,
                    store |-> [st EXCEPT ![ip].count = @ + 1]]
         ELSE [allowed |-> TRUE,
               store |-> [st EXCEPT ![ip] =
                   [count |-> 1, reset_at |-> t + RATE_LIMIT_WINDOW_MINUTES]]]
    ELSE [allowed |-> TRUE,
          store |-> [k \in DOMAIN st \cup {ip} |->
                       IF k = ip
                       THEN [count |-> 1,
                             reset_at |-> t + RATE_LIMIT_WINDOW_MINUTES]
                       ELSE st[k]]]

\* Mutant: the limit compared with > instead of >=.
check_current_ip_off_by_one(st, ip, t) ==
    IF ip \in DOMAIN st
    THEN IF st[ip].reset_at > t
         THEN IF st[ip].count > RATE_LIMIT_ATTEMPTS
              THEN [allowed |-> FALSE, store |-> st]
              ELSE [allowed |-> TRUE,
                    store |-> [st EXCEPT ![ip].count = @ + 1]]
         ELSE [allowed |-> TRUE,
               store |-> [st EXCEPT ![ip] =
                   [count |-> 1, reset_at |-> t + RATE_LIMIT_WINDOW_MINUTES]]]
    ELSE [allowed |-> TRUE,
          store |-> [k \in DOMAIN st \cup {ip} |->
                       IF k = ip
                       THEN [count |-> 1,
                             reset_at |-> t + RATE_LIMIT_WINDOW_MINUTES]
                       ELSE st[k]]]

\* Lines 73-90 on the cleaned store, for key ip at time t.
check_current_ip(st, ip, t) ==
    IF ip \in DOMAIN st
    THEN IF st[ip].reset_at > t
         THEN IF st[ip].count >= RATE_LIMIT_ATTEMPTS
              THEN [allowed |-> FALSE, store |-> st]
              ELSE [allowed |-> TRUE,
                    store |-> [st EXCEPT ![ip].count = @ + 1]]
         ELSE [allowed |-> TRUE,
               store |-> [st EXCEPT ![ip] =
                   [count |-> 1, reset_at |-> t + RATE_LIMIT_WINDOW_MINUTES]]]
    ELSE [allowed |-> TRUE,
          store |-> [k \in DOMAIN st \cup {ip} |->
                       IF k = ip
                       THEN [count |-> 1,
                             reset_at |-> t + RATE_LIMIT_WINDOW_MINUTES]
                       ELSE st[k]]]

check_rate_limit(st, request, t) ==
    IF ~request.present
    THEN [allowed |-> TRUE, store |-> st]
    ELSE check_current_ip(cleanup_expired(st, t), client_ip_of(request), t)

\* ------------------------------------------------------- models/user.py
\* locked_until is a DateTime column without time zone (lines 22 and 50).
\* locked_until_aware tells whether the value held by an object carries a
\* tzinfo: a value assigned from datetime.now(timezone.utc) does, a value
\* loaded from the column does not.
NewRow(id, username, email, phone, hashed) ==
    [id |-> id, username |-> username, email |-> email, phone |-> phone,
     hashed_password |-> hashed, is_active |-> TRUE,
     failed_login_attempts |-> 0, locked_until |-> NULL,
     locked_until_aware |-> FALSE, deleted_at |-> NULL]

\* None, for a lookup that found no row.
None == NewRow(0, "", "", NoPhone, <<"argon2", "">>)

\* ------------------------------------------- sqlalchemy session (per request)
\* select(...).where(username == identifier or email == identifier),
\* filtered on deleted_at IS NULL unless include_deleted.
rows_by_username_or_email(tbl, identifier, include_deleted) ==
    {i \in 1..Len(tbl) :
        /\ (tbl[i].username = identifier \/ tbl[i].email = identifier)
        /\ (include_deleted \/ tbl[i].deleted_at = NULL)}

rows_by_username(tbl, username, include_deleted) ==
    {i \in 1..Len(tbl) :
        /\ tbl[i].username = username
        /\ (include_deleted \/ tbl[i].deleted_at = NULL)}

rows_by_email(tbl, email, include_deleted) ==
    {i \in 1..Len(tbl) :
        /\ tbl[i].email = email
        /\ (include_deleted \/ tbl[i].deleted_at = NULL)}

rows_by_phone(tbl, phone, include_deleted) ==
    {i \in 1..Len(tbl) :
        /\ tbl[i].phone = phone
        /\ (include_deleted \/ tbl[i].deleted_at = NULL)}

\* result.scalar_one_or_none(): no row gives None, one row gives it, several
\* rows raise MultipleResultsFound.
scalar_one_or_none(tbl, ids) ==
    IF ids = {} THEN [raised |-> FALSE, row |-> None]
    ELSE IF Cardinality(ids) = 1
         THEN [raised |-> FALSE, row |-> tbl[CHOOSE i \in ids : TRUE]]
         ELSE [raised |-> TRUE, row |-> None]

\* Mutant: the UPDATE adds the difference to the stored counter instead of
\* writing the value of the session's copy.
db_commit_adds_to_stored(tbl, obj, loaded) ==
    [tbl EXCEPT
        ![obj.id].failed_login_attempts =
            @ + (obj.failed_login_attempts - loaded.failed_login_attempts),
        ![obj.id].locked_until =
            IF obj.locked_until # loaded.locked_until
            THEN obj.locked_until ELSE @,
        ![obj.id].locked_until_aware = FALSE]

\* db.commit(): the UPDATE carries the columns whose value differs from the
\* one loaded; the DateTime column stores the timestamp without its tzinfo.
\* db.refresh() then reloads the object from its row.
db_commit(tbl, obj, loaded) ==
    [tbl EXCEPT
        ![obj.id].failed_login_attempts =
            IF obj.failed_login_attempts # loaded.failed_login_attempts
            THEN obj.failed_login_attempts ELSE @,
        ![obj.id].locked_until =
            IF obj.locked_until # loaded.locked_until
            THEN obj.locked_until ELSE @,
        ![obj.id].locked_until_aware = FALSE]

\* ------------------------------------------------- repositories/user_repo.py
UserRepository_get_by_username_or_email(tbl, identifier) ==
    scalar_one_or_none(tbl, rows_by_username_or_email(tbl, identifier, FALSE))

UserRepository_get_by_username(tbl, username) ==
    scalar_one_or_none(tbl, rows_by_username(tbl, username, FALSE))

\* Mutant: the lock is set one failure before the threshold.
UserRepository_increment_failed_attempts_early_lock(user, t) ==
    LET u == [user EXCEPT !.failed_login_attempts = @ + 1]
    IN  IF u.failed_login_attempts >= MAX_LOGIN_ATTEMPTS - 1
        THEN [u EXCEPT !.locked_until = t + LOCKOUT_DURATION_MINUTES,
                       !.locked_until_aware = TRUE]
        ELSE u

UserRepository_increment_failed_attempts(user, t) ==
    LET u == [user EXCEPT !.failed_login_attempts = @ + 1]
    IN  IF u.failed_login_attempts >= MAX_LOGIN_ATTEMPTS
        THEN [u EXCEPT !.locked_until = t + LOCKOUT_DURATION_MINUTES,
                       !.locked_until_aware = TRUE]
        ELSE u

\* Mutant: the lock is cleared and the counter is left as it was.
UserRepository_reset_failed_attempts_keeps_count(user) ==
    [user EXCEPT !.locked_until = NULL, !.locked_until_aware = FALSE]

UserRepository_reset_failed_attempts(user) ==
    [user EXCEPT !.failed_login_attempts = 0, !.locked_until = NULL,
                 !.locked_until_aware = FALSE]

\* Lines 53-59: the row with this id, None when there is none (or it is
\* soft-deleted and include_deleted is false).
UserRepository_get_by_id(tbl, user_id, include_deleted) ==
    IF /\ user_id \in 1..Len(tbl)
       /\ (include_deleted \/ tbl[user_id].deleted_at = NULL)
    THEN tbl[user_id] ELSE None

\* Lines 119-124 with SoftDeleteMixin.soft_delete: deleted_at = now.
UserRepository_soft_delete_user(user, t) == [user EXCEPT !.deleted_at = t]

\* ------------------------------------------------- services/user_service.py
UserService_activate_user(user) == [user EXCEPT !.is_active = TRUE]
\* Mutant: blocking a user also clears the failed-attempt counter and lock.
UserService_deactivate_user_unlocks(user) ==
    [user EXCEPT !.is_active = FALSE, !.failed_login_attempts = 0,
                 !.locked_until = NULL]

UserService_deactivate_user(user) == [user EXCEPT !.is_active = FALSE]

\* ------------------------------------------------ repositories/admin_repo.py
AdminRepository_get_by_username_or_email(tbl, identifier) ==
    scalar_one_or_none(tbl, rows_by_username_or_email(tbl, identifier, FALSE))

AdminRepository_get_by_username(tbl, username) ==
    scalar_one_or_none(tbl, rows_by_username(tbl, username, FALSE))

\* Mutant: the admin's lock is set one failure later than the user's.
AdminRepository_increment_failed_attempts_late_lock(admin, t) ==
    LET a == [admin EXCEPT !.failed_login_attempts = @ + 1]
    IN  IF a.failed_login_attempts > MAX_LOGIN_ATTEMPTS
        THEN [a EXCEPT !.locked_until = t + LOCKOUT_DURATION_MINUTES,
                       !.locked_until_aware = TRUE]
        ELSE a

AdminRepository_increment_failed_attempts(admin, t) ==
    LET a == [admin EXCEPT !.failed_login_attempts = @ + 1]
    IN  IF a.failed_login_attempts >= MAX_LOGIN_ATTEMPTS
        THEN [a EXCEPT !.locked_until = t + LOCKOUT_DURATION_MINUTES,
                       !.locked_until_aware = TRUE]
        ELSE a

AdminRepository_reset_failed_attempts(admin) ==
    [admin EXCEPT !.failed_login_attempts = 0, !.locked_until = NULL,
                  !.locked_until_aware = FALSE]

\* ------------------------------------------------- services/audit_service.py
NoEntry == [action |-> "", entity_type |-> "", entity_id |-> 0,
            success |-> FALSE, error_message |-> ""]

log_login(aud, entity_type, entity_id, success, error_message) ==
    [n |-> aud.n + 1,
     last |-> [action |-> "LOGIN", entity_type |-> entity_type,
               entity_id |-> entity_id, success |-> success,
               error_message |-> error_message]]

\* AuditService.log_action as the admin routes call it (success=True).
log_action(aud, action, entity_type, entity_id) ==
    [n |-> aud.n + 1,
     last |-> [action |-> action, entity_type |-> entity_type,
               entity_id |-> entity_id, success |-> TRUE,
               error_message |-> ""]]

\* ------------------------------------------------------------------ tasks
Idle == [pc |-> "idle", op |-> "", kind |-> "", identifier |-> "",
         password |-> "", request |-> NoRequest, user |-> None,
         loaded |-> None, at |-> 0, status |-> 0, detail |-> "",
         token |-> NoToken, email |-> "", phone |-> NoPhone,
         permissions |-> <<>>, granted |-> FALSE, audit_fails |-> FALSE]

NewLogin(kind, identifier, password, request) ==
    [Idle EXCEPT !.pc = "start", !.op = "login", !.kind = kind,
                 !.identifier = identifier, !.password = password,
                 !.request = request]

\* raise an exception / return: the handler ends with this response.
Respond(tk, status, detail, token) ==
    [tk EXCEPT !.pc = "done", !.status = status, !.detail = detail,
               !.token = token]

\* datetime.__gt__ against now = datetime.now(timezone.utc), which carries a
\* tzinfo: ordering a timestamp without tzinfo against it raises TypeError.
datetime_gt(value, aware, t) ==
    IF ~aware THEN "TypeError" ELSE IF value > t THEN "True" ELSE "False"

\* Lines 105 (user) and 102 (admin): the lock check,
\* `x.locked_until and x.locked_until > now`.
user_is_locked(user, t) ==
    IF user.locked_until = NULL THEN "False"
    ELSE datetime_gt(user.locked_until, user.locked_until_aware, t)

admin_is_locked(admin, t) ==
    IF admin.locked_until = NULL THEN "False"
    ELSE datetime_gt(admin.locked_until, admin.locked_until_aware, t)

\* ------------------------------------------------- services/auth_service.py
\* One segment of AuthService.login between two suspension points, applied to
\* the task's locals tk and the shared state S.
AuthService_login_step(tk, S) ==
    CASE tk.pc = "start" ->
            \* `if request and not check_rate_limit(request)`
            LET rl == IF tk.request.present
                      THEN check_rate_limit(S.store, tk.request, S.now)
                      ELSE [allowed |-> TRUE, store |-> S.store]
            IN  [tk |-> [tk EXCEPT !.pc = IF rl.allowed THEN "lookup"
                                          ELSE "audit_rate"],
                 S  |-> [S EXCEPT !.store = rl.store]]
      [] tk.pc = "audit_rate" ->
            [tk |-> Respond(tk, 429, "Too many login attempts", NoToken),
             S  |-> [S EXCEPT !.audit = log_login(@, "user", 0, FALSE,
                                                  "Rate limit exceeded")]]
      [] tk.pc = "lookup" ->
            LET r == UserRepository_get_by_username_or_email(S.users,
                                                     tk.identifier)
            IN  IF r.raised
                THEN [tk |-> Respond(tk, 500, "MultipleResultsFound", NoToken),
                      S  |-> S]
                ELSE [tk |-> [tk EXCEPT !.pc = "decide", !.user = r.row,
                                        !.loaded = r.row],
                      S  |-> S]
      [] tk.pc = "decide" ->
            \* `now = datetime.now(timezone.utc)` is the local tk.at
            LET user == tk.user
                tn == [tk EXCEPT !.at = S.now]
            IN  IF user = None
                THEN [tk |-> [tk EXCEPT !.pc = "audit_missing"], S |-> S]
                ELSE IF user_is_locked(user, S.now) = "TypeError"
                THEN [tk |-> Respond(tn, 500, "TypeError", NoToken), S |-> S]
                ELSE IF user_is_locked(user, S.now) = "True"
                THEN [tk |-> [tn EXCEPT !.pc = "audit_locked"], S |-> S]
                ELSE IF ~verify_password(tk.password, user.hashed_password)
                THEN [tk |-> [tn EXCEPT
                                !.pc = "commit_failure",
                                !.user = UserRepository_increment_failed_attempts(
                                             user, S.now)],
                      S  |-> S]
                ELSE IF ~user.is_active
                THEN [tk |-> [tn EXCEPT !.pc = "audit_inactive"], S |-> S]
                ELSE IF user.failed_login_attempts > 0
                THEN [tk |-> [tn EXCEPT
                                !.pc = "commit_reset",
                                !.user = UserRepository_reset_failed_attempts(user)],
                      S  |-> S]
                ELSE [tk |-> [tn EXCEPT !.pc = "audit_success"], S |-> S]
      [] tk.pc = "audit_missing" ->
            [tk |-> Respond(tk, 401, "Invalid credentials", NoToken),
             S  |-> [S EXCEPT !.audit = log_login(@, "user", 0, FALSE,
                                                  "User not found")]]
      [] tk.pc = "audit_locked" ->
            [tk |-> Respond(tk, 401, "Account is locked", NoToken),
             S  |-> [S EXCEPT !.audit = log_login(@, "user", tk.user.id,
                                                  FALSE, "Account locked")]]
      [] tk.pc = "commit_failure" ->
            LET tbl == db_commit(S.users, tk.user, tk.loaded)
            IN  [tk |-> [tk EXCEPT !.pc = "audit_failure",
                                   !.user = tbl[tk.user.id]],
                 S  |-> [S EXCEPT !.users = tbl]]
      [] tk.pc = "audit_failure" ->
            [tk |-> Respond(tk, 401, "Invalid credentials", NoToken),
             S  |-> [S EXCEPT !.audit = log_login(@, "user", tk.user.id,
                                                  FALSE, "Invalid password")]]
      [] tk.pc = "audit_inactive" ->
            [tk |-> Respond(tk, 403, "User account is inactive", NoToken),
             S  |-> [S EXCEPT !.audit = log_login(@, "user", tk.user.id,
                                                  FALSE, "Account inactive")]]
      [] tk.pc = "commit_reset" ->
            LET tbl == db_commit(S.users, tk.user, tk.loaded)
            IN  [tk |-> [tk EXCEPT !.pc = "audit_success",
                                   !.user = tbl[tk.user.id]],
                 S  |-> [S EXCEPT !.users = tbl]]
      [] tk.pc = "audit_success" ->
            [tk |-> Respond(tk, 200, "Login successful",
                            create_access_token(tk.user.username, S.now)),
             S  |-> [S EXCEPT !.audit = log_login(@, "user", tk.user.id,
                                                  TRUE, "")]]
      [] OTHER -> [tk |-> tk, S |-> S]

\* ------------------------------------------- services/admin_auth_service.py
\* One segment of AdminAuthService.login between two suspension points, applied to
\* the task's locals tk and the shared state S.
AdminAuthService_login_step(tk, S) ==
    CASE tk.pc = "start" ->
            \* `if request and not check_rate_limit(request)`
            LET rl == IF tk.request.present
                      THEN check_rate_limit(S.store, tk.request, S.now)
                      ELSE [allowed |-> TRUE, store |-> S.store]
            IN  [tk |-> [tk EXCEPT !.pc = IF rl.allowed THEN "lookup"
                                          ELSE "audit_rate"],
                 S  |-> [S EXCEPT !.store = rl.store]]
      [] tk.pc = "audit_rate" ->
            [tk |-> Respond(tk, 429, "Too many login attempts", NoToken),
             S  |-> [S EXCEPT !.audit = log_login(@, "admin", 0, FALSE,
                                                  "Rate limit exceeded")]]
      [] tk.pc = "lookup" ->
            LET r == AdminRepository_get_by_username_or_email(S.admins,
                                                     tk.identifier)
            IN  IF r.raised
                THEN [tk |-> Respond(tk, 500, "MultipleResultsFound", NoToken),
                      S  |-> S]
                ELSE [tk |-> [tk EXCEPT !.pc = "decide", !.user = r.row,
                                        !.loaded = r.row],
                      S  |-> S]
      [] tk.pc = "decide" ->
            \* `now = datetime.now(timezone.utc)` is the local tk.at
            LET admin == tk.user
                tn == [tk EXCEPT !.at = S.now]
            IN  IF admin = None
                THEN [tk |-> [tk EXCEPT !.pc = "audit_missing"], S |-> S]
                ELSE IF admin_is_locked(admin, S.now) = "TypeError"
                THEN [tk |-> Respond(tn, 500, "TypeError", NoToken), S |-> S]
                ELSE IF admin_is_locked(admin, S.now) = "True"
                THEN [tk |-> [tn EXCEPT !.pc = "audit_locked"], S |-> S]
                ELSE IF ~verify_password(tk.password, admin.hashed_password)
                THEN [tk |-> [tn EXCEPT
                                !.pc = "commit_failure",
                                !.user = AdminRepository_increment_failed_attempts(
                                             admin, S.now)],
                      S  |-> S]
                ELSE IF ~admin.is_active
                THEN [tk |-> [tn EXCEPT !.pc = "audit_inactive"], S |-> S]
                ELSE IF admin.failed_login_attempts > 0
                THEN [tk |-> [tn EXCEPT
                                !.pc = "commit_reset",
                                !.user = AdminRepository_reset_failed_attempts(admin)],
                      S  |-> S]
                ELSE [tk |-> [tn EXCEPT !.pc = "audit_success"], S |-> S]
      [] tk.pc = "audit_missing" ->
            [tk |-> Respond(tk, 401, "Invalid credentials", NoToken),
             S  |-> [S EXCEPT !.audit = log_login(@, "admin", 0, FALSE,
                                                  "Admin not found")]]
      [] tk.pc = "audit_locked" ->
            [tk |-> Respond(tk, 401, "Admin account is locked", NoToken),
             S  |-> [S EXCEPT !.audit = log_login(@, "admin", tk.user.id,
                                                  FALSE, "Account locked")]]
      [] tk.pc = "commit_failure" ->
            LET tbl == db_commit(S.admins, tk.user, tk.loaded)
            IN  [tk |-> [tk EXCEPT !.pc = "audit_failure",
                                   !.user = tbl[tk.user.id]],
                 S  |-> [S EXCEPT !.admins = tbl]]
      [] tk.pc = "audit_failure" ->
            [tk |-> Respond(tk, 401, "Invalid credentials", NoToken),
             S  |-> [S EXCEPT !.audit = log_login(@, "admin", tk.user.id,
                                                  FALSE, "Invalid password")]]
      [] tk.pc = "audit_inactive" ->
            [tk |-> Respond(tk, 403, "Admin account is inactive", NoToken),
             S  |-> [S EXCEPT !.audit = log_login(@, "admin", tk.user.id,
                                                  FALSE, "Account inactive")]]
      [] tk.pc = "commit_reset" ->
            LET tbl == db_commit(S.admins, tk.user, tk.loaded)
            IN  [tk |-> [tk EXCEPT !.pc = "audit_success",
                                   !.user = tbl[tk.user.id]],
                 S  |-> [S EXCEPT !.admins = tbl]]
      [] tk.pc = "audit_success" ->
            [tk |-> Respond(tk, 200, "Login successful",
                            create_access_token(tk.user.username, S.now)),
             S  |-> [S EXCEPT !.audit = log_login(@, "admin", tk.user.id,
                                                  TRUE, "")]]
      [] OTHER -> [tk |-> tk, S |-> S]

\* ------------------------------------------------------- running a handler
\* The segments that consist of the call of AuditService.log_login and of
\* what follows it.
AuditSegments ==
    {"audit_rate", "audit_missing", "audit_locked", "audit_failure",
     "audit_inactive", "audit_success"}

\* One segment of a login handler. When the audit table cannot be written,
\* the commit of create_log raises out of log_login and out of login, which
\* catch nothing: the handler ends there with the server error.
login_step(tk, S) ==
    IF tk.audit_fails /\ tk.pc \in AuditSegments
    THEN [tk |-> Respond(tk, 500, "SQLAlchemyError", NoToken), S |-> S]
    ELSE IF tk.kind = "user" THEN AuthService_login_step(tk, S)
    ELSE AdminAuthService_login_step(tk, S)

\* The whole handler, from its first segment to its response, with no other
\* request in between.
RECURSIVE RunLogin(_, _)
RunLogin(tk, S) ==
    IF tk.pc = "done" THEN [tk |-> tk, S |-> S]
    ELSE LET r == login_step(tk, S) IN RunLogin(r.tk, r.S)

\* The segments a login handler goes through from tk to its response.
RECURSIVE Segments(_, _)
Segments(tk, S) ==
    IF tk.pc = "done" THEN <<>>
    ELSE LET r == login_step(tk, S) IN <<tk.pc>> \o Segments(r.tk, r.S)

\* AuthService.register with the email check ahead of the username check.
AuthService_register_email_first(S, username, email, password, phone) ==
    LET tbl == S.users
        insert == Append(tbl, NewRow(Len(tbl) + 1, username, email, phone,
                                     hash_password(password)))
    IN  IF rows_by_email(tbl, email, FALSE) # {}
        THEN [status |-> 409, detail |-> "Email already exists", S |-> S]
        ELSE IF rows_by_username(tbl, username, FALSE) # {}
        THEN [status |-> 409, detail |-> "Username already exists", S |-> S]
        ELSE IF phone # NoPhone /\ rows_by_phone(tbl, phone, FALSE) # {}
        THEN [status |-> 409, detail |-> "Phone number already exists",
              S |-> S]
        ELSE IF \/ rows_by_username(tbl, username, TRUE) # {}
                \/ rows_by_email(tbl, email, TRUE) # {}
                \/ (phone # NoPhone /\ rows_by_phone(tbl, phone, TRUE) # {})
        THEN [status |-> 409, detail |-> "Resource already exists", S |-> S]
        ELSE [status |-> 201, detail |-> "registered",
              S |-> [S EXCEPT !.users = insert]]

\* AuthService.register: the conflict checks in order, then create_user, whose
\* INSERT the unique indexes of the table (all rows, deleted or not) can
\* refuse: integrity_error_handler answers that IntegrityError with 409
\* "Resource already exists".
AuthService_register(S, username, email, password, phone) ==
    LET tbl == S.users
        insert == Append(tbl, NewRow(Len(tbl) + 1, username, email, phone,
                                     hash_password(password)))
    IN  IF rows_by_username(tbl, username, FALSE) # {}
        THEN [status |-> 409, detail |-> "Username already exists", S |-> S]
        ELSE IF rows_by_email(tbl, email, FALSE) # {}
        THEN [status |-> 409, detail |-> "Email already exists", S |-> S]
        ELSE IF phone # NoPhone /\ rows_by_phone(tbl, phone, FALSE) # {}
        THEN [status |-> 409, detail |-> "Phone number already exists",
              S |-> S]
        ELSE IF \/ rows_by_username(tbl, username, TRUE) # {}
                \/ rows_by_email(tbl, email, TRUE) # {}
                \/ (phone # NoPhone /\ rows_by_phone(tbl, phone, TRUE) # {})
        THEN [status |-> 409, detail |-> "Resource already exists", S |-> S]
        ELSE [status |-> 201, detail |-> "registered",
              S |-> [S EXCEPT !.users = insert]]

\* AdminAuthService.register: the conflict checks in order, then
\* create_admin, whose INSERT the unique indexes of the table (all rows,
\* deleted or not) can refuse (409 "Resource already exists").
AdminAuthService_register(S, username, email, password, phone) ==
    LET tbl == S.admins
        insert == Append(tbl, NewRow(Len(tbl) + 1, username, email, phone,
                                     hash_password(password)))
    IN  IF rows_by_username(tbl, username, FALSE) # {}
        THEN [status |-> 409, detail |-> "Username already exists", S |-> S]
        ELSE IF rows_by_email(tbl, email, FALSE) # {}
        THEN [status |-> 409, detail |-> "Email already exists", S |-> S]
        ELSE IF phone # NoPhone /\ rows_by_phone(tbl, phone, FALSE) # {}
        THEN [status |-> 409, detail |-> "Phone number already exists",
              S |-> S]
        ELSE IF \/ rows_by_username(tbl, username, TRUE) # {}
                \/ rows_by_email(tbl, email, TRUE) # {}
                \/ (phone # NoPhone /\ rows_by_phone(tbl, phone, TRUE) # {})
        THEN [status |-> 409, detail |-> "Resource already exists", S |-> S]
        ELSE [status |-> 201, detail |-> "registered",
              S |-> [S EXCEPT !.admins = insert]]

\* ------------------------------------------------------------ api/deps.py
\* get_current_admin: TRUE when the bearer token resolves to an admin, FALSE
\* for UnauthorizedError("Invalid or expired token").
get_current_admin(token, S) ==
    LET payload == decode_access_token(token, S.now)
        r == AdminRepository_get_by_username(S.admins, payload.sub)
    IN  /\ payload # NoToken
        /\ ~r.raised
        /\ r.row # None
        /\ r.row.is_active

\* get_current_user: TRUE when the bearer token resolves to a user, FALSE
\* for UnauthorizedError("Invalid or expired token").
\* Mutant: get_current_user without the is_active test.
get_current_user_ignoring_is_active(token, S) ==
    LET payload == decode_access_token(token, S.now)
        r == UserRepository_get_by_username(S.users, payload.sub)
    IN  /\ payload # NoToken
        /\ ~r.raised
        /\ r.row # None

get_current_user(token, S) ==
    LET payload == decode_access_token(token, S.now)
        r == UserRepository_get_by_username(S.users, payload.sub)
    IN  /\ payload # NoToken
        /\ ~r.raised
        /\ r.row # None
        /\ r.row.is_active

\* --------------------------------------------------------- models/role.py
\* No role, no permission, no admin-role row. roles[i].permissions holds the
\* permission ids that role_permissions associates with role i; admin_roles
\* holds the <<admin_id, role_id>> rows.
NoRbac == [roles |-> <<>>, permissions |-> <<>>, admin_roles |-> {}]

\* ------------------------------------------ services/permission_service.py
\* admin.roles after db.refresh(admin, ["roles"]), in id order.
RECURSIVE roles_from(_, _, _)
roles_from(rb, admin_id, i) ==
    IF i > Len(rb.roles) THEN <<>>
    ELSE IF <<admin_id, i>> \in rb.admin_roles
    THEN <<i>> \o roles_from(rb, admin_id, i + 1)
    ELSE roles_from(rb, admin_id, i + 1)

admin_roles_of(rb, admin_id) == roles_from(rb, admin_id, 1)

\* The inner loop: some permission of the role has this resource and action.
role_has_permission(rb, role_id, resource, action) ==
    \E p \in rb.roles[role_id].permissions :
       /\ rb.permissions[p].resource = resource
       /\ rb.permissions[p].action = action

\* admin_has_permission with the is_active test dropped.
RECURSIVE has_permission_loop_any_role(_, _, _, _)
has_permission_loop_any_role(rb, roles, resource, action) ==
    IF roles = <<>> THEN FALSE
    ELSE IF role_has_permission(rb, Head(roles), resource, action) THEN TRUE
    ELSE has_permission_loop_any_role(rb, Tail(roles), resource, action)

\* The outer loop: inactive roles are skipped, the first role that has the
\* permission returns True, the end of the list returns False.
RECURSIVE has_permission_loop(_, _, _, _)
has_permission_loop(rb, roles, resource, action) ==
    IF roles = <<>> THEN FALSE
    ELSE IF ~rb.roles[Head(roles)].is_active
    THEN has_permission_loop(rb, Tail(roles), resource, action)
    ELSE IF role_has_permission(rb, Head(roles), resource, action) THEN TRUE
    ELSE has_permission_loop(rb, Tail(roles), resource, action)

admin_has_permission(rb, admin_id, resource, action) ==
    has_permission_loop(rb, admin_roles_of(rb, admin_id), resource, action)

\* Lines 32-37: True at the first pair the admin has, False at the end.
RECURSIVE admin_has_any_permission(_, _, _)
admin_has_any_permission(rb, admin_id, permissions) ==
    IF permissions = <<>> THEN FALSE
    ELSE IF admin_has_permission(rb, admin_id, Head(permissions)[1],
                                 Head(permissions)[2]) THEN TRUE
    ELSE admin_has_any_permission(rb, admin_id, Tail(permissions))

\* Lines 39-44: False at the first pair the admin lacks, True at the end.
RECURSIVE admin_has_all_permissions(_, _, _)
admin_has_all_permissions(rb, admin_id, permissions) ==
    IF permissions = <<>> THEN TRUE
    ELSE IF ~admin_has_permission(rb, admin_id, Head(permissions)[1],
                                  Head(permissions)[2]) THEN FALSE
    ELSE admin_has_all_permissions(rb, admin_id, Tail(permissions))

\* ------------------------------------------- register and update, by segment
\* email=None of update_my_profile; phone=None is NoPhone.
NoEmail == ""

TableOf(S, kind) == IF kind = "user" THEN S.users ELSE S.admins
WithTable(S, kind, tbl) ==
    IF kind = "user" THEN [S EXCEPT !.users = tbl]
    ELSE [S EXCEPT !.admins = tbl]

\* The unique indexes that are never consulted.
unique_violation_never(tbl, id, username, email, phone) == FALSE

\* unique=True on username, email and phone: the row with this id cannot
\* take these values when another row, soft-deleted or not, has one of them
\* (a NULL phone clashes with nothing).
unique_violation(tbl, id, username, email, phone) ==
    \E j \in 1..Len(tbl) :
       /\ j # id
       /\ \/ tbl[j].username = username
          \/ tbl[j].email = email
          \/ (phone # NoPhone /\ tbl[j].phone = phone)

NewRegister(kind, username, email, phone) ==
    [Idle EXCEPT !.pc = "reg_username", !.op = "register", !.kind = kind,
                 !.identifier = username, !.password = "pw1",
                 !.email = email, !.phone = phone]

\* AuthService.register / AdminAuthService.register, one segment per await:
\* get_by_username, get_by_email, get_by_phone, create_user's commit.
register_step(tk, S) ==
    LET tbl == TableOf(S, tk.kind)
    IN  CASE tk.pc = "reg_username" ->
               IF rows_by_username(tbl, tk.identifier, FALSE) # {}
               THEN [tk |-> Respond(tk, 409, "Username already exists",
                                    NoToken), S |-> S]
               ELSE [tk |-> [tk EXCEPT !.pc = "reg_email"], S |-> S]
          [] tk.pc = "reg_email" ->
               IF rows_by_email(tbl, tk.email, FALSE) # {}
               THEN [tk |-> Respond(tk, 409, "Email already exists", NoToken),
                     S |-> S]
               ELSE [tk |-> [tk EXCEPT !.pc = IF tk.phone # NoPhone
                                               THEN "reg_phone"
                                               ELSE "reg_insert"], S |-> S]
          [] tk.pc = "reg_phone" ->
               IF rows_by_phone(tbl, tk.phone, FALSE) # {}
               THEN [tk |-> Respond(tk, 409, "Phone number already exists",
                                    NoToken), S |-> S]
               ELSE [tk |-> [tk EXCEPT !.pc = "reg_insert"], S |-> S]
          [] tk.pc = "reg_insert" ->
               IF unique_violation(tbl, Len(tbl) + 1, tk.identifier, tk.email,
                                   tk.phone)
               THEN [tk |-> Respond(tk, 409, "Resource already exists", NoToken),
                     S |-> S]
               ELSE [tk |-> Respond(tk, 201, "registered", NoToken),
                     S |-> WithTable(S, tk.kind,
                              Append(tbl, NewRow(Len(tbl) + 1, tk.identifier,
                                                 tk.email, tk.phone,
                                                 hash_password(tk.password))))]
          [] OTHER -> [tk |-> tk, S |-> S]

\* PUT /users/me by the user of this username, who presents a token just
\* issued to it, with a new email and a new phone (or none of either).
NewUpdate(username, email, phone) ==
    [Idle EXCEPT !.pc = "upd_auth", !.op = "update", !.kind = "user",
                 !.identifier = username, !.email = email, !.phone = phone]

\* The first segment of update_user that awaits, given what the request
\* carries and the loaded user.
update_next_pc(tk, after) ==
    IF after = "auth" /\ tk.email # NoEmail /\ tk.email # tk.user.email
    THEN "upd_email"
    ELSE IF /\ after \in {"auth", "email"}
            /\ tk.phone # NoPhone /\ tk.phone # tk.user.phone
    THEN "upd_phone"
    ELSE "upd_commit"

\* update_my_profile with UserService.update_user, one segment per await:
\* get_current_user's lookup, get_by_email, get_by_phone, the commit, which
\* flushes the attributes whose value changed.
update_step(tk, S) ==
    LET tbl == S.users
    IN  CASE tk.pc = "upd_auth" ->
               IF ~get_current_user(
                      create_access_token(tk.identifier, S.now), S)
               THEN [tk |-> Respond(tk, 401, "Invalid or expired token",
                                    NoToken), S |-> S]
               ELSE LET user == UserRepository_get_by_username(
                                    tbl, tk.identifier).row
                        tu == [tk EXCEPT !.user = user]
                    IN  [tk |-> [tu EXCEPT !.pc = update_next_pc(tu, "auth")],
                         S |-> S]
          [] tk.pc = "upd_email" ->
               IF rows_by_email(tbl, tk.email, FALSE) \ {tk.user.id} # {}
               THEN [tk |-> Respond(tk, 409, "Email already exists", NoToken),
                     S |-> S]
               ELSE [tk |-> [tk EXCEPT !.pc = update_next_pc(tk, "email")],
                     S |-> S]
          [] tk.pc = "upd_phone" ->
               IF rows_by_phone(tbl, tk.phone, FALSE) \ {tk.user.id} # {}
               THEN [tk |-> Respond(tk, 409, "Phone number already exists",
                                    NoToken), S |-> S]
               ELSE [tk |-> [tk EXCEPT !.pc = "upd_commit"], S |-> S]
          [] tk.pc = "upd_commit" ->
               LET id == tk.user.id
                   email == IF tk.email # NoEmail /\ tk.email # tk.user.email
                            THEN tk.email ELSE tbl[id].email
                   phone == IF tk.phone # NoPhone /\ tk.phone # tk.user.phone
                            THEN tk.phone ELSE tbl[id].phone
               IN  IF unique_violation(tbl, id, tbl[id].username, email, phone)
                   THEN [tk |-> Respond(tk, 409, "Resource already exists", NoToken),
                         S |-> S]
                   ELSE [tk |-> Respond(tk, 200, "Profile updated successfully",
                                        NoToken),
                         S |-> [S EXCEPT !.users[id].email = email,
                                         !.users[id].phone = phone]]
          [] OTHER -> [tk |-> tk, S |-> S]

write_step(tk, S) ==
    IF tk.op = "register" THEN register_step(tk, S) ELSE update_step(tk, S)

\* A register or update handler run from its first segment to its response.
RECURSIVE RunWrite(_, _)
RunWrite(tk, S) ==
    IF tk.pc = "done" THEN [tk |-> tk, S |-> S]
    ELSE LET r == write_step(tk, S) IN RunWrite(r.tk, r.S)

\* ================================================================ actions
NoHeld == [kind |-> "", token |-> NoToken]

Init ==
    /\ users = <<>>
    /\ admins = <<>>
    /\ store = [ip \in {} |-> [count |-> 0, reset_at |-> 0]]
    /\ audit = [n |-> 0, last |-> NoEntry]
    /\ now = 0
    /\ tasks = [t \in Tasks |-> Idle]
    /\ held = NoHeld
    /\ rbac = NoRbac
    /\ collections = <<>>

\* The shared state after a handler, written back.
Publish(S) ==
    /\ users' = S.users
    /\ admins' = S.admins
    /\ store' = S.store
    /\ audit' = S.audit
    /\ now' = S.now

\* POST /auth/login handled from start to response.
UserLogin(identifier, password, request) ==
    LET r == RunLogin(NewLogin("user", identifier, password, request), Shared)
    IN  /\ Publish(r.S)
        /\ tasks' = [tasks EXCEPT !["t1"] = r.tk]
        /\ UNCHANGED <<held, rbac, collections>>

\* POST /admin/auth/login handled from start to response.
AdminLogin(identifier, password, request) ==
    LET r == RunLogin(NewLogin("admin", identifier, password, request), Shared)
    IN  /\ Publish(r.S)
        /\ tasks' = [tasks EXCEPT !["t1"] = r.tk]
        /\ UNCHANGED <<held, rbac, collections>>

\* A login request handled from start to response while the audit table
\* cannot be written.
LoginAuditDown(kind, identifier, password, request) ==
    LET r == RunLogin([NewLogin(kind, identifier, password, request)
                          EXCEPT !.audit_fails = TRUE], Shared)
    IN  /\ Publish(r.S)
        /\ tasks' = [tasks EXCEPT !["t1"] = r.tk]
        /\ UNCHANGED <<held, rbac, collections>>

\* POST /auth/register
RegisterUser(username, email, password, phone) ==
    LET r == AuthService_register(Shared, username, email, password, phone)
    IN  /\ Publish(r.S)
        /\ tasks' = [tasks EXCEPT !["t1"] =
              [Idle EXCEPT !.pc = "done", !.op = "register", !.kind = "user",
                           !.identifier = username, !.status = r.status,
                           !.detail = r.detail]]
        /\ UNCHANGED <<held, rbac, collections>>

\* POST /admin/auth/register
RegisterAdmin(username, email, password, phone) ==
    LET r == AdminAuthService_register(Shared, username, email, password,
                                       phone)
    IN  /\ Publish(r.S)
        /\ tasks' = [tasks EXCEPT !["t1"] =
              [Idle EXCEPT !.pc = "done", !.op = "register", !.kind = "admin",
                           !.identifier = username, !.status = r.status,
                           !.detail = r.detail]]
        /\ UNCHANGED <<held, rbac, collections>>

\* The client keeps the access token of the login response it just received.
KeepToken ==
    /\ tasks["t1"].op = "login" /\ tasks["t1"].pc = "done"
    /\ tasks["t1"].status = 200
    /\ held' = [kind |-> tasks["t1"].kind, token |-> tasks["t1"].token]
    /\ UNCHANGED <<users, admins, store, audit, now, tasks, rbac, collections>>

\* A request to an admin-only endpoint carrying the held bearer token.
AdminEndpoint ==
    /\ held # NoHeld
    /\ tasks' = [tasks EXCEPT !["t1"] =
          [Idle EXCEPT !.pc = "done", !.op = "admin_endpoint",
                       !.kind = held.kind, !.token = held.token,
                       !.status = IF get_current_admin(held.token, Shared)
                                  THEN 200 ELSE 401]]
    /\ UNCHANGED <<users, admins, store, audit, now, held, rbac, collections>>

\* The response of a handler that is not a login.
Answer(op, kind, id, status, detail) ==
    [Idle EXCEPT !.pc = "done", !.op = op, !.kind = kind,
                 !.user = [None EXCEPT !.id = id],
                 !.status = status, !.detail = detail]

\* DELETE /users/me with the held bearer token: soft delete of the caller.
DeleteMyAccount ==
    /\ held # NoHeld
    /\ IF get_current_user(held.token, Shared)
       THEN LET id == UserRepository_get_by_username(
                          users, decode_access_token(held.token, now).sub).row.id
            IN  /\ users' = [users EXCEPT ![id] =
                                UserRepository_soft_delete_user(@, now)]
                /\ tasks' = [tasks EXCEPT !["t1"] =
                      Answer("delete_me", held.kind, id, 200, "deleted")]
       ELSE /\ users' = users
            /\ tasks' = [tasks EXCEPT !["t1"] =
                  Answer("delete_me", held.kind, 0, 401,
                         "Invalid or expired token")]
    /\ UNCHANGED <<admins, store, audit, now, held, rbac, collections>>

\* PATCH /admin/users/{user_id}/block (active = FALSE) and .../activate
\* (active = TRUE) with the held bearer token.
SetUserActive(user_id, active) ==
    /\ held # NoHeld
    /\ LET op == IF active THEN "activate_user" ELSE "block_user"
           user == UserRepository_get_by_id(users, user_id, FALSE)
       IN  IF ~get_current_admin(held.token, Shared)
           THEN /\ tasks' = [tasks EXCEPT !["t1"] =
                      Answer(op, held.kind, 0, 401, "Invalid or expired token")]
                /\ UNCHANGED <<users, audit>>
           ELSE IF user = None
           THEN /\ tasks' = [tasks EXCEPT !["t1"] =
                      Answer(op, held.kind, 0, 404, "User not found")]
                /\ UNCHANGED <<users, audit>>
           ELSE /\ users' = [users EXCEPT ![user_id] =
                        IF active THEN UserService_activate_user(@)
                        ELSE UserService_deactivate_user(@)]
                /\ audit' = log_action(audit,
                                IF active THEN "ACTIVATE" ELSE "BLOCK",
                                "user", user_id)
                /\ tasks' = [tasks EXCEPT !["t1"] =
                      Answer(op, held.kind, user_id, 200, "ok")]
    /\ UNCHANGED <<admins, store, now, held, rbac, collections>>

\* PUT /users/me handled from start to response, with the bearer token of
\* user username.
UpdateMyProfile(username, email, phone) ==
    LET r == RunWrite(NewUpdate(username, email, phone), Shared)
    IN  /\ Publish(r.S)
        /\ tasks' = [tasks EXCEPT !["t1"] =
              [Idle EXCEPT !.pc = "done", !.op = "update", !.kind = "user",
                           !.identifier = username, !.status = r.tk.status,
                           !.detail = r.tk.detail]]
        /\ UNCHANGED <<held, rbac, collections>>

\* GET /users/me with bearer token token.
GetMyProfile(token) ==
    /\ tasks' = [tasks EXCEPT !["t1"] =
          [Idle EXCEPT !.pc = "done", !.op = "get_my_profile",
                       !.kind = "user", !.token = token,
                       !.status = IF get_current_user(token, Shared)
                                  THEN 200 ELSE 401]]
    /\ UNCHANGED <<users, admins, store, audit, now, held, rbac, collections>>

\* GET /admin/me with bearer token token.
GetAdminProfile(token) ==
    /\ tasks' = [tasks EXCEPT !["t1"] =
          [Idle EXCEPT !.pc = "done", !.op = "get_admin_profile",
                       !.kind = "admin", !.token = token,
                       !.status = IF get_current_admin(token, Shared)
                                  THEN 200 ELSE 401]]
    /\ UNCHANGED <<users, admins, store, audit, now, held, rbac, collections>>

\* The same credentials posted to /auth/login and to /admin/auth/login at
\* the same instant, from two client addresses so that each login has its
\* own rate-limit bucket; the user login is answered in task t1, the admin
\* login in task t2.
TwinLogin(identifier, password, user_request, admin_request) ==
    LET u == RunLogin(NewLogin("user", identifier, password, user_request),
                      Shared)
        a == RunLogin(NewLogin("admin", identifier, password, admin_request),
                      u.S)
    IN  /\ Publish(a.S)
        /\ tasks' = [tasks EXCEPT !["t1"] = u.tk, !["t2"] = a.tk]
        /\ UNCHANGED <<held, rbac, collections>>

\* The admin that get_current_admin hands to a handler.
current_admin_id(token, S) ==
    AdminRepository_get_by_username(
        S.admins, decode_access_token(token, S.now).sub).row.id

\* An admin route refused by get_current_admin.
Unauthorized(op) ==
    /\ tasks' = [tasks EXCEPT !["t1"] =
          Answer(op, held.kind, 0, 401, "Invalid or expired token")]
    /\ UNCHANGED <<rbac, collections, audit>>

\* POST /admin/permissions: a permission named after its pair.
CreatePermission(pair) ==
    /\ held # NoHeld
    /\ IF ~get_current_admin(held.token, Shared)
       THEN Unauthorized("create_permission")
       ELSE IF \E p \in 1..Len(rbac.permissions) :
                  rbac.permissions[p].name = pair
       THEN /\ tasks' = [tasks EXCEPT !["t1"] =
                  Answer("create_permission", held.kind, 0, 409,
                         "Permission already exists")]
            /\ UNCHANGED <<rbac, collections, audit>>
       ELSE /\ rbac' = [rbac EXCEPT !.permissions =
                          Append(@, [name |-> pair, resource |-> pair[1],
                                     action |-> pair[2]])]
            /\ audit' = log_action(audit, "CREATE", "permission",
                                   Len(rbac.permissions) + 1)
            /\ tasks' = [tasks EXCEPT !["t1"] =
                  Answer("create_permission", held.kind,
                         Len(rbac.permissions) + 1, 201, "created")]
            /\ UNCHANGED collections
    /\ UNCHANGED <<users, admins, store, now, held>>

\* POST /admin/roles: create_role, then assign_permissions_to_role with the
\* permissions whose id is in permission_ids.
CreateRole(name, is_active, permission_ids) ==
    /\ held # NoHeld
    /\ IF ~get_current_admin(held.token, Shared)
       THEN Unauthorized("create_role")
       ELSE IF \E r \in 1..Len(rbac.roles) : rbac.roles[r].name = name
       THEN /\ tasks' = [tasks EXCEPT !["t1"] =
                  Answer("create_role", held.kind, 0, 409,
                         "Role already exists")]
            /\ UNCHANGED <<rbac, collections, audit>>
       ELSE /\ rbac' = [rbac EXCEPT !.roles =
                          Append(@, [name |-> name, is_active |-> is_active,
                                     permissions |-> permission_ids \cap
                                        (1..Len(rbac.permissions))])]
            /\ audit' = log_action(audit, "CREATE", "role",
                                   Len(rbac.roles) + 1)
            /\ tasks' = [tasks EXCEPT !["t1"] =
                  Answer("create_role", held.kind, Len(rbac.roles) + 1, 201,
                         "created")]
            /\ UNCHANGED collections
    /\ UNCHANGED <<users, admins, store, now, held>>

\* PUT /admin/roles/{role_id} with is_active alone.
UpdateRole(role_id, is_active) ==
    /\ held # NoHeld
    /\ IF ~get_current_admin(held.token, Shared)
       THEN Unauthorized("update_role")
       ELSE IF role_id \notin 1..Len(rbac.roles)
       THEN /\ tasks' = [tasks EXCEPT !["t1"] =
                  Answer("update_role", held.kind, 0, 404, "Role not found")]
            /\ UNCHANGED <<rbac, collections, audit>>
       ELSE /\ rbac' = [rbac EXCEPT !.roles[role_id].is_active = is_active]
            /\ audit' = log_action(audit, "UPDATE", "role", role_id)
            /\ tasks' = [tasks EXCEPT !["t1"] =
                  Answer("update_role", held.kind, role_id, 200, "updated")]
            /\ UNCHANGED collections
    /\ UNCHANGED <<users, admins, store, now, held>>

\* POST /admin/admins/{admin_id}/roles: admin.roles = the roles whose id is
\* in role_ids.
AssignRolesToAdmin(admin_id, role_ids) ==
    /\ held # NoHeld
    /\ IF ~get_current_admin(held.token, Shared)
       THEN Unauthorized("assign_roles_to_admin")
       ELSE IF ~(admin_id \in 1..Len(admins)
                 /\ admins[admin_id].deleted_at = NULL)
       THEN /\ tasks' = [tasks EXCEPT !["t1"] =
                  Answer("assign_roles_to_admin", held.kind, 0, 404,
                         "Admin not found")]
            /\ UNCHANGED <<rbac, collections, audit>>
       ELSE /\ rbac' = [rbac EXCEPT !.admin_roles =
                  {ar \in @ : ar[1] # admin_id} \cup
                  {<<admin_id, r>> : r \in role_ids \cap (1..Len(rbac.roles))}]
            /\ audit' = log_action(audit, "UPDATE", "admin", admin_id)
            /\ tasks' = [tasks EXCEPT !["t1"] =
                  Answer("assign_roles_to_admin", held.kind, admin_id, 200,
                         "Roles assigned successfully")]
            /\ UNCHANGED collections
    /\ UNCHANGED <<users, admins, store, now, held>>

\* POST /collections, behind require_permission("collections", "create").
CreateCollection(slug) ==
    /\ held # NoHeld
    /\ IF ~get_current_admin(held.token, Shared)
       THEN Unauthorized("create_collection")
       ELSE IF ~admin_has_permission(rbac, current_admin_id(held.token, Shared),
                                     "collections", "create")
       THEN /\ tasks' = [tasks EXCEPT !["t1"] =
                  Answer("create_collection", held.kind, 0, 403,
                         "Permission required: collections:create")]
            /\ UNCHANGED <<rbac, collections, audit>>
       ELSE IF \E c \in 1..Len(collections) : collections[c] = slug
       THEN /\ tasks' = [tasks EXCEPT !["t1"] =
                  Answer("create_collection", held.kind, 0, 409,
                         "Collection already exists")]
            /\ UNCHANGED <<rbac, collections, audit>>
       ELSE /\ collections' = Append(collections, slug)
            /\ audit' = log_action(audit, "CREATE", "collection",
                                   Len(collections) + 1)
            /\ tasks' = [tasks EXCEPT !["t1"] =
                  Answer("create_collection", held.kind,
                         Len(collections) + 1, 201, "created")]
            /\ UNCHANGED rbac
    /\ UNCHANGED <<users, admins, store, now, held>>

\* PermissionService asked about an admin: one pair for
\* admin_has_permission, a list of pairs for the other two.
PermissionCheck(fn, admin_id, permissions) ==
    /\ tasks' = [tasks EXCEPT !["t1"] =
          [Answer(fn, "admin", admin_id, 0, "")
              EXCEPT !.permissions = permissions,
                     !.granted =
                        CASE fn = "admin_has_permission" ->
                               admin_has_permission(rbac, admin_id,
                                   permissions[1][1], permissions[1][2])
                          [] fn = "admin_has_any_permission" ->
                               admin_has_any_permission(rbac, admin_id,
                                                        permissions)
                          [] OTHER ->
                               admin_has_all_permissions(rbac, admin_id,
                                                         permissions)]]
    /\ UNCHANGED <<users, admins, store, audit, now, held, rbac, collections>>

\* create_access_token called for a subject; the caller keeps the token.
IssueToken(subject) ==
    /\ held' = [kind |-> "user", token |-> create_access_token(subject, now)]
    /\ UNCHANGED <<users, admins, store, audit, now, tasks, rbac, collections>>

\* A client presents a token it did not get from create_access_token: one
\* whose signature does not match, or one without sub or without exp.
PresentToken(token) ==
    /\ held' = [kind |-> "user", token |-> token]
    /\ UNCHANGED <<users, admins, store, audit, now, tasks, rbac, collections>>

\* decode_access_token called on the kept token; the payload it returns
\* (NoToken for None) is the answer.
DecodeToken ==
    /\ held # NoHeld
    /\ tasks' = [tasks EXCEPT !["t1"] =
          [Answer("decode_access_token", held.kind, 0, 0, "")
              EXCEPT !.token = decode_access_token(held.token, now)]]
    /\ UNCHANGED <<users, admins, store, audit, now, held, rbac, collections>>

Tick(last) ==
    /\ now + TickMinutes <= last
    /\ now' = now + TickMinutes
    /\ UNCHANGED <<users, admins, store, audit, tasks, held, rbac, collections>>

\* The clock advances by a part of a rate-limit window.
Pass(minutes, last) ==
    /\ now + minutes <= last
    /\ now' = now + minutes
    /\ UNCHANGED <<users, admins, store, audit, tasks, held, rbac, collections>>

\* ------------------------------------------------------------- input sets
Usernames == {"alice", "a@x.io"}
Emails == {"a@x.io", "b@x.io"}
Passwords == {"pw1", "bad"}
Clients == {"10.0.0.1", "10.0.0.2"}
Requests == {NoRequest, Req(NoClient)} \cup {Req(c) : c \in Clients}
Identifiers == {"alice", "a@x.io", "nobody"}
Names == {"alice", "bob"}
Phones == {NoPhone, "111"}
Pairs == {<<"collections", "create">>, <<"collections", "delete">>}
PairLists == {<<>>} \cup {<<p>> : p \in Pairs}
                 \cup {<<<<"collections", "create">>,
                          <<"collections", "delete">>>>}
RoleNames == {"editor", "viewer"}
ResolverFns == {"admin_has_permission", "admin_has_any_permission",
                "admin_has_all_permissions"}
Subjects == {"alice", "root"}
\* Tokens with a wrong signature, and tokens without sub or without exp.
OtherTokens ==
    {tok \in {[sub |-> sub, exp |-> exp, iat |-> 0, signed |-> sg] :
                 sub \in Subjects \cup {""},
                 exp \in {NULL, ACCESS_TOKEN_EXPIRE_MINUTES, MaxTimeTok + 60},
                 sg \in BOOLEAN} :
        ~tok.signed \/ tok.sub = "" \/ tok.exp = NULL}
WriteEmails == {"b@x.io", "c@x.io"}
WritePhones == {NoPhone, "222"}

\* Registration, login by username or email, and use of the token.
Next ==
    \/ \E u \in Usernames, e \in Emails : RegisterUser(u, e, "pw1", NoPhone)
    \/ \E u \in Usernames, e \in Emails : RegisterAdmin(u, e, "pw1", NoPhone)
    \/ \E i \in Usernames \cup Emails, p \in Passwords :
          audit.n < MaxLogins /\ UserLogin(i, p, NoRequest)
    \/ \E i \in Usernames \cup Emails, p \in Passwords :
          audit.n < MaxLogins /\ AdminLogin(i, p, NoRequest)
    \/ KeepToken
    \/ AdminEndpoint
    \/ Tick(MaxTime)

Spec == Init /\ [][Next]_vars

\* One user and one admin, many attempts: the lockout.
NextLock ==
    \/ RegisterUser("alice", "a@x.io", "pw1", NoPhone)
    \/ RegisterAdmin("alice", "a@x.io", "pw1", NoPhone)
    \/ \E p \in Passwords :
          audit.n < MaxLoginsLock /\ UserLogin("alice", p, Req("10.0.0.1"))
    \/ \E p \in Passwords :
          audit.n < MaxLoginsLock /\ AdminLogin("alice", p, Req("10.0.0.1"))
    \/ Tick(MaxTimeLock)

SpecLock == Init /\ [][NextLock]_vars

\* No principal registered, every kind of request: the rate limiter.
NextRate ==
    \/ \E q \in Requests : audit.n < MaxLoginsRate /\ UserLogin("alice", "pw1", q)
    \/ \E q \in Requests : audit.n < MaxLoginsRate /\ AdminLogin("alice", "pw1", q)
    \/ Tick(MaxTimeRate)

SpecRate == Init /\ [][NextRate]_vars

\* The rate limiter with calls at instants inside a window: logins of
\* several addresses spread over windows that overlap.
NextWin ==
    \/ \E q \in Requests : audit.n < MaxLoginsWin /\ UserLogin("alice", "pw1", q)
    \/ Pass(WinStep, MaxTimeWin)

SpecWin == Init /\ [][NextWin]_vars

\* User "alice" and admin "root" are registered; the accounts are then
\* logged into, deleted by their owner, blocked and activated by the admin.
InitAcct ==
    /\ users = <<NewRow(1, "alice", "a@x.io", NoPhone, hash_password("pw1"))>>
    /\ admins = <<NewRow(1, "root", "r@x.io", NoPhone, hash_password("pw1"))>>
    /\ store = [ip \in {} |-> [count |-> 0, reset_at |-> 0]]
    /\ audit = [n |-> 0, last |-> NoEntry]
    /\ now = 0
    /\ tasks = [t \in Tasks |-> Idle]
    /\ held = NoHeld
    /\ rbac = NoRbac
    /\ collections = <<>>

NextAcct ==
    \/ audit.n < MaxLoginsAcct /\ RegisterUser("a@x.io", "b@x.io", "pw1", NoPhone)
    \/ \E i \in Identifiers, p \in Passwords :
          audit.n < MaxLoginsAcct /\ UserLogin(i, p, NoRequest)
    \/ audit.n < MaxLoginsAcct /\ AdminLogin("root", "pw1", NoRequest)
    \/ KeepToken
    \/ DeleteMyAccount
    \/ \E id \in 1..Len(users), a \in BOOLEAN :
          audit.n < MaxLoginsAcct /\ SetUserActive(id, a)
    \/ Tick(MaxTimeAcct)

SpecAcct == InitAcct /\ [][NextAcct]_vars

\* Every operation that writes a principal's row, one request at a time:
\* registration, logins with every outcome, profile update, block and
\* activate, account deletion.
NextFrame ==
    \/ RegisterUser("bob", "b@x.io", "pw1", NoPhone)
    \/ \E i \in {"alice", "nobody"}, p \in Passwords :
          audit.n < MaxOpsFrame /\ UserLogin(i, p, Req("10.0.0.1"))
    \/ \E p \in Passwords :
          audit.n < MaxOpsFrame /\ AdminLogin("root", p, NoRequest)
    \/ KeepToken
    \/ DeleteMyAccount
    \/ \E a \in BOOLEAN : audit.n < MaxOpsFrame /\ SetUserActive(1, a)
    \/ \E ph \in WritePhones : UpdateMyProfile("alice", "c@x.io", ph)
    \/ Tick(MaxTimeFrame)

SpecFrame == InitAcct /\ [][NextFrame]_vars

\* The bearer tokens clients present: tokens the login endpoints issue to
\* alice and to root at the instants up to MaxIssuedAt, and one whose
\* signature does not verify.
SessTokens ==
    {create_access_token(sub, t) :
        sub \in Subjects, t \in {m \in 0..MaxIssuedAt : m % TickMinutes = 0}}
    \cup {[create_access_token("alice", 0) EXCEPT !.signed = FALSE]}

\* Tokens presented to the user and admin endpoints while the user is locked
\* out, blocked, reactivated and deleted and while time passes beyond the
\* tokens' expiry.
NextSess ==
    \/ \E p \in Passwords :
          audit.n < MaxOpsSess /\ UserLogin("alice", p, NoRequest)
    \/ audit.n < MaxOpsSess /\ AdminLogin("root", "pw1", NoRequest)
    \/ KeepToken
    \/ DeleteMyAccount
    \/ \E a \in BOOLEAN :
          /\ audit.n < MaxOpsSess
          /\ users[1].is_active # a
          /\ SetUserActive(1, a)
    \/ \E tok \in SessTokens : GetMyProfile(tok)
    \/ \E tok \in SessTokens : GetAdminProfile(tok)
    \/ Tick(MaxTimeSess)

SpecSess == InitAcct /\ [][NextSess]_vars

\* Registrations with and without phone numbers, against tables that hold
\* live and soft-deleted rows.
NextReg ==
    \/ \E u \in Names, e \in Emails, ph \in Phones :
          /\ Len(users) + Len(admins) < MaxRowsReg
          /\ RegisterUser(u, e, "pw1", ph)
    \/ \E u \in Names, e \in Emails, ph \in Phones :
          /\ Len(users) + Len(admins) < MaxRowsReg
          /\ RegisterAdmin(u, e, "pw1", ph)
    \/ \E u \in Names : audit.n < MaxLoginsReg /\ UserLogin(u, "pw1", NoRequest)
    \/ KeepToken
    \/ DeleteMyAccount

SpecReg == Init /\ [][NextReg]_vars

\* User "alice" and admin "root" are registered and log in, with the audit
\* table writable or not; the admin blocks and activates the user.
NextAudit ==
    \/ \E i \in {"alice", "nobody"}, p \in Passwords :
          audit.n < MaxLoginsAudit /\ UserLogin(i, p, NoRequest)
    \/ audit.n < MaxLoginsAudit /\ AdminLogin("root", "pw1", NoRequest)
    \/ \E k \in Kinds, i \in {"alice", "root", "nobody"}, p \in Passwords :
          LoginAuditDown(k, i, p, NoRequest)
    \/ KeepToken
    \/ \E a \in BOOLEAN : audit.n < MaxLoginsAudit /\ SetUserActive(1, a)
    \/ Tick(MaxTimeAudit)

SpecAudit == InitAcct /\ [][NextAudit]_vars

\* Tokens are issued, presented and decoded as time passes.
NextTok ==
    \/ \E sub \in Subjects : IssueToken(sub)
    \/ \E tok \in OtherTokens : PresentToken(tok)
    \/ DecodeToken
    \/ Tick(MaxTimeTok)

SpecTok == Init /\ [][NextTok]_vars

\* Admin "root" and user "alice" are registered; roles and permissions are
\* created and assigned, collections are created, the resolver is asked.
InitPerm ==
    /\ users = <<NewRow(1, "alice", "a@x.io", NoPhone, hash_password("pw1"))>>
    /\ admins = <<NewRow(1, "root", "r@x.io", NoPhone, hash_password("pw1"))>>
    /\ store = [ip \in {} |-> [count |-> 0, reset_at |-> 0]]
    /\ audit = [n |-> 0, last |-> NoEntry]
    /\ now = 0
    /\ tasks = [t \in Tasks |-> Idle]
    /\ held = NoHeld
    /\ rbac = NoRbac
    /\ collections = <<>>

NextPerm ==
    \/ audit.n < MaxActionsPerm /\ AdminLogin("root", "pw1", NoRequest)
    \/ KeepToken
    \/ \E pair \in Pairs : audit.n < MaxActionsPerm /\ CreatePermission(pair)
    \/ \E name \in RoleNames, a \in BOOLEAN, ids \in SUBSET (1..MaxIds) :
          audit.n < MaxActionsPerm /\ CreateRole(name, a, ids)
    \/ \E r \in 1..MaxIds, a \in BOOLEAN :
          audit.n < MaxActionsPerm /\ UpdateRole(r, a)
    \/ \E id \in 1..MaxIds, ids \in SUBSET (1..MaxIds) :
          audit.n < MaxActionsPerm /\ AssignRolesToAdmin(id, ids)
    \/ audit.n < MaxActionsPerm /\ CreateCollection("summer")
    \/ \E id \in 1..Len(users), a \in BOOLEAN :
          audit.n < MaxActionsPerm /\ SetUserActive(id, a)
    \/ \E fn \in ResolverFns, id \in 1..Len(admins), ps \in PairLists :
          /\ fn = "admin_has_permission" => Len(ps) = 1
          /\ PermissionCheck(fn, id, ps)

SpecPerm == InitPerm /\ [][NextPerm]_vars

\* ------------------------------------------------- concurrent requests
\* Free tasks are taken in this order.
TaskBefore(u, t) == u = "t1" /\ t = "t2"

\* A login request arrives and its handler runs to its first suspension
\* point: check_rate_limit has no await, so it runs in one piece.
Begin(t, kind, identifier, password, request) ==
    /\ tasks[t].pc \in {"idle", "done"}
    /\ \A u \in Tasks : tasks[u].pc \in {"idle", "done"} => ~TaskBefore(u, t)
    /\ LET r == login_step(NewLogin(kind, identifier, password, request),
                           Shared)
       IN  /\ Publish(r.S)
           /\ tasks' = [tasks EXCEPT ![t] = r.tk]
    /\ UNCHANGED <<held, rbac, collections>>

\* What is left of a handler once its response is sent: the response.
Sent(tk) ==
    [Idle EXCEPT !.pc = "done", !.op = tk.op, !.kind = tk.kind,
                 !.status = tk.status, !.detail = tk.detail,
                 !.token = tk.token]

\* The event loop resumes a suspended handler for one more segment.
Resume(t) ==
    /\ tasks[t].pc \notin {"idle", "done"}
    /\ LET r == login_step(tasks[t], Shared)
       IN  /\ Publish(r.S)
           /\ tasks' = [tasks EXCEPT ![t] =
                 IF r.tk.pc = "done" THEN Sent(r.tk) ELSE r.tk]
    /\ UNCHANGED <<held, rbac, collections>>

\* A register or update request arrives and runs to its first await.
BeginWrite(t, tk) ==
    /\ tasks[t].pc \in {"idle", "done"}
    /\ \A u \in Tasks : tasks[u].pc \in {"idle", "done"} => ~TaskBefore(u, t)
    /\ LET r == write_step(tk, Shared)
       IN  /\ Publish(r.S)
           /\ tasks' = [tasks EXCEPT ![t] = r.tk]
    /\ UNCHANGED <<held, rbac, collections>>

\* What is left of a register or update handler once its response is sent.
SentWrite(tk) ==
    [Idle EXCEPT !.pc = "done", !.op = tk.op, !.kind = tk.kind,
                 !.status = tk.status, !.detail = tk.detail,
                 !.email = tk.email, !.phone = tk.phone]

\* The event loop resumes a suspended register or update handler.
ResumeWrite(t) ==
    /\ tasks[t].pc \notin {"idle", "done"}
    /\ LET r == write_step(tasks[t], Shared)
       IN  /\ Publish(r.S)
           /\ tasks' = [tasks EXCEPT ![t] =
                 IF r.tk.pc = "done" THEN SentWrite(r.tk) ELSE r.tk]
    /\ UNCHANGED <<held, rbac, collections>>

\* User "alice" is registered; user "carol" registered with a phone number
\* and deleted the account.
InitUniq ==
    /\ users = <<NewRow(1, "alice", "a@x.io", NoPhone, hash_password("pw1")),
                 [NewRow(2, "carol", "c@x.io", "222", hash_password("pw1"))
                     EXCEPT !.deleted_at = 0]>>
    /\ admins = <<>>
    /\ store = [ip \in {} |-> [count |-> 0, reset_at |-> 0]]
    /\ audit = [n |-> 0, last |-> NoEntry]
    /\ now = 0
    /\ tasks = [t \in Tasks |-> Idle]
    /\ held = NoHeld
    /\ rbac = NoRbac
    /\ collections = <<>>

\* Concurrent registrations and profile updates.
NextUniq ==
    \/ \E t \in Tasks, k \in Kinds, u \in Names, e \in WriteEmails,
          ph \in WritePhones :
          /\ Len(users) + Len(admins) < MaxRowsUniq
          /\ BeginWrite(t, NewRegister(k, u, e, ph))
    \/ \E t \in Tasks, u \in Names, e \in WriteEmails \cup {NoEmail},
          ph \in WritePhones :
          BeginWrite(t, NewUpdate(u, e, ph))
    \/ \E t \in Tasks : ResumeWrite(t)

SpecUniq == InitUniq /\ [][NextUniq]_vars

\* Requests in flight when a new one arrives or ends.
InFlight == {t \in Tasks : tasks[t].pc \notin {"idle", "done"}}

\* User "alice" and admin "alice" are registered; nothing else has happened.
InitConc ==
    /\ users = <<NewRow(1, "alice", "a@x.io", NoPhone, hash_password("pw1"))>>
    /\ admins = <<NewRow(1, "alice", "a@x.io", NoPhone, hash_password("pw1"))>>
    /\ store = [ip \in {} |-> [count |-> 0, reset_at |-> 0]]
    /\ audit = [n |-> 0, last |-> NoEntry]
    /\ now = 0
    /\ tasks = [t \in Tasks |-> Idle]
    /\ held = NoHeld
    /\ rbac = NoRbac
    /\ collections = <<>>

\* The requests of one behaviour all go to one of the two login endpoints.
NextConc ==
    \/ \E t \in Tasks, k \in Kinds, p \in Passwords :
          /\ audit.n + Cardinality(InFlight) < MaxLoginsConc
          /\ \A u \in Tasks : tasks[u].kind \in {"", k}
          /\ Begin(t, k, "alice", p, Req("10.0.0.1"))
    \/ \E t \in Tasks : Resume(t)
    \/ Tick(MaxTimeConc)

SpecConc == InitConc /\ [][NextConc]_vars

\* A user and an admin with the same username, email, password and
\* is_active flag; no login has happened.
InitTwin ==
    /\ \E active \in BOOLEAN :
          /\ users = <<[NewRow(1, "alice", "a@x.io", NoPhone,
                               hash_password("pw1"))
                           EXCEPT !.is_active = active]>>
          /\ admins = users
    /\ store = [ip \in {} |-> [count |-> 0, reset_at |-> 0]]
    /\ audit = [n |-> 0, last |-> NoEntry]
    /\ now = 0
    /\ tasks = [t \in Tasks |-> Idle]
    /\ held = NoHeld
    /\ rbac = NoRbac
    /\ collections = <<>>

\* The request pairs of a twin login: both without a request, or one address
\* each.
TwinRequests ==
    {<<NoRequest, NoRequest>>, <<Req("10.0.0.1"), Req("10.0.0.2")>>}

\* The two login services driven side by side by the same inputs.
NextTwin ==
    \/ \E i \in Identifiers, p \in Passwords, q \in TwinRequests :
          /\ audit.n < 2 * MaxLoginsTwin
          /\ TwinLogin(i, p, q[1], q[2])
    \/ Tick(MaxTimeTwin)

SpecTwin == InitTwin /\ [][NextTwin]_vars

\* ================================================================= claims
Table(kind) == IF kind = "user" THEN users ELSE admins
TableNext(kind) == IF kind = "user" THEN users' ELSE admins'

\* The step is one whole login request, answered in tasks'["t1"].
LoginStep ==
    LET tk == tasks'["t1"]
    IN  /\ tk.op = "login"
        /\ IF tk.kind = "user"
           THEN UserLogin(tk.identifier, tk.password, tk.request)
           ELSE AdminLogin(tk.identifier, tk.password, tk.request)

\* The non-deleted principals an identifier names.
Targets(kind, identifier) ==
    {i \in 1..Len(Table(kind)) :
        /\ Table(kind)[i].deleted_at = NULL
        /\ (Table(kind)[i].username = identifier
            \/ Table(kind)[i].email = identifier)}

\* isLocked(principal, t): locked_until is set and later than t.
LockedAt(row, t) == row.locked_until # NULL /\ row.locked_until > t

\* The rate limiter lets the request through in the current state.
Admitted(request) ==
    \/ ~request.present
    \/ LET ip == client_ip_of(request)
       IN  \/ ip \notin DOMAIN store
           \/ store[ip].reset_at <= now
           \/ store[ip].count < RATE_LIMIT_ATTEMPTS

LockedDetails == {"Account is locked", "Admin account is locked"}

\* C1, for the logins that the rate limiter admits and whose identifier
\* names one principal: when that principal's locked_until is later than the
\* current time, the answer is the account-locked error and no token,
\* whatever the password.
C1_LockedAlwaysAnsweredLocked ==
    [][LoginStep =>
         LET tk == tasks'["t1"]
         IN  \A i \in 1..Len(Table(tk.kind)) :
                (/\ Targets(tk.kind, tk.identifier) = {i}
                 /\ Admitted(tk.request)
                 /\ LockedAt(Table(tk.kind)[i], now))
                => /\ tk.status = 401
                   /\ tk.detail \in LockedDetails
                   /\ tk.token = NoToken]_vars

\* A login the rate limiter admits, that reaches the password check of
\* principal i and fails it.
WrongPassword(tk, i) ==
    /\ Targets(tk.kind, tk.identifier) = {i}
    /\ Admitted(tk.request)
    /\ ~LockedAt(Table(tk.kind)[i], now)
    /\ ~verify_password(tk.password, Table(tk.kind)[i].hashed_password)

\* What a wrong-password login does to the principal: one more failed
\* attempt, invalid credentials, no lock below MAX_LOGIN_ATTEMPTS and
\* locked_until = time of the attempt + LOCKOUT_DURATION at MAX_LOGIN_ATTEMPTS.
CountedFailure(tk, i) ==
    LET before == Table(tk.kind)[i]
        after  == TableNext(tk.kind)[i]
    IN  /\ tk.status = 401 /\ tk.detail = "Invalid credentials"
        /\ after.failed_login_attempts = before.failed_login_attempts + 1
        /\ after.failed_login_attempts < MAX_LOGIN_ATTEMPTS =>
              after.locked_until = NULL
        /\ after.failed_login_attempts = MAX_LOGIN_ATTEMPTS =>
              after.locked_until = now + LOCKOUT_DURATION_MINUTES

\* Once set, a lock stands unchanged at every time before its instant; from
\* that instant on the principal is no longer locked: an admitted login
\* naming it is answered by the credential and active checks.
LockLastsExactly ==
    /\ \A k \in Kinds : \A i \in 1..Len(Table(k)) :
          (Table(k)[i].locked_until # NULL /\ now' < Table(k)[i].locked_until)
             => /\ TableNext(k)[i].locked_until = Table(k)[i].locked_until
                /\ LockedAt(TableNext(k)[i], now')
    /\ LoginStep =>
          LET tk == tasks'["t1"]
          IN  \A i \in 1..Len(Table(tk.kind)) :
                 (/\ Targets(tk.kind, tk.identifier) = {i}
                  /\ Admitted(tk.request)
                  /\ Table(tk.kind)[i].locked_until # NULL
                  /\ now >= Table(tk.kind)[i].locked_until)
                 => \/ tk.status = 200
                    \/ tk.status = 401 /\ tk.detail = "Invalid credentials"
                    \/ tk.status = 403

\* C2, for the logins that the rate limiter admits: each wrong-password
\* login against an unlocked principal is rejected as invalid credentials and
\* counted; below MAX_LOGIN_ATTEMPTS the principal is not locked, the
\* MAX_LOGIN_ATTEMPTS-th sets locked_until to the time of the attempt +
\* LOCKOUT_DURATION, the principal stays locked before that instant and is no
\* longer locked from that instant on.
C2_LockoutAfterMaxAttempts ==
    [][/\ LoginStep =>
            LET tk == tasks'["t1"]
            IN  \A i \in 1..Len(Table(tk.kind)) :
                   WrongPassword(tk, i) => CountedFailure(tk, i)
       /\ LockLastsExactly]_vars

\* C3 as claimed: a token issued by the user login endpoint is rejected with
\* 401 by get_current_admin.
C3_UserTokenRejectedByAdmin ==
    LET tk == tasks["t1"]
    IN  (tk.op = "admin_endpoint" /\ tk.kind = "user") => tk.status = 401

\* C4 as claimed: a login the rate limiter admits, whose identifier is the
\* email of a non-deleted, active, unlocked principal and whose password is
\* that principal's, returns a token.
C4_LoginByEmailIssuesToken ==
    [][LoginStep =>
         LET tk == tasks'["t1"]
         IN  \A i \in 1..Len(Table(tk.kind)) :
                LET row == Table(tk.kind)[i]
                IN  (/\ row.email = tk.identifier
                     /\ row.deleted_at = NULL /\ row.is_active
                     /\ ~LockedAt(row, now)
                     /\ verify_password(tk.password, row.hashed_password)
                     /\ Admitted(tk.request))
                    => (tk.status = 200 /\ tk.token # NoToken)]_vars

\* C5: after a login that returned a token, the principal's failed-attempt
\* counter is 0 and its locked_until is null.
C5_TokenMeansCleanCounters ==
    LET tk == tasks["t1"]
    IN  (tk.op = "login" /\ tk.pc = "done" /\ tk.status = 200) =>
            /\ tk.token # NoToken
            /\ Table(tk.kind)[tk.user.id].failed_login_attempts = 0
            /\ Table(tk.kind)[tk.user.id].locked_until = NULL

\* C5 witness: a token was returned to a principal that was loaded with
\* failed attempts on its counter.
C5_Witness ==
    LET tk == tasks["t1"]
    IN  /\ tk.op = "login" /\ tk.pc = "done" /\ tk.status = 200
        /\ tk.token # NoToken
        /\ tk.loaded.failed_login_attempts = MAX_LOGIN_ATTEMPTS - 1
        /\ Table(tk.kind)[tk.user.id].failed_login_attempts = 0
        /\ Table(tk.kind)[tk.user.id].locked_until = NULL

\* C7, for the logins that the rate limiter admits and whose identifier
\* names one principal: when that principal is locked, the login is rejected
\* without a token, every principal's row (counter and locked_until
\* included) is left unchanged, and one audit entry, a failure for that
\* principal, is appended.
C7_LockedRejectionOnlyAudits ==
    [][LoginStep =>
         LET tk == tasks'["t1"]
         IN  \A i \in 1..Len(Table(tk.kind)) :
                (/\ Targets(tk.kind, tk.identifier) = {i}
                 /\ Admitted(tk.request)
                 /\ LockedAt(Table(tk.kind)[i], now))
                => /\ tk.status # 200 /\ tk.token = NoToken
                   /\ users' = users /\ admins' = admins
                   /\ audit'.n = audit.n + 1
                   /\ audit'.last.success = FALSE
                   /\ audit'.last.entity_type = tk.kind
                   /\ audit'.last.entity_id = i]_vars

\* C6 as claimed: while a principal is locked until T and T has not passed,
\* no step moves its locked_until to a later instant.
C6_LockNeverExtended ==
    [][\A k \in Kinds : \A i \in 1..Len(Table(k)) :
          LockedAt(Table(k)[i], now) =>
             TableNext(k)[i].locked_until <= Table(k)[i].locked_until]_vars

\* A window of RATE_LIMIT_ATTEMPTS: what one check of address ip does to its
\* bucket and whether it admits (limited = FALSE) or rejects.
WindowStep(ip, limited) ==
    IF ip \notin DOMAIN store \/ store[ip].reset_at <= now
    THEN /\ ~limited
         /\ store'[ip] = [count |-> 1,
                          reset_at |-> now + RATE_LIMIT_WINDOW_MINUTES]
    ELSE IF store[ip].count < RATE_LIMIT_ATTEMPTS
    THEN /\ ~limited
         /\ store'[ip] = [store[ip] EXCEPT !.count = @ + 1]
    ELSE /\ limited
         /\ store'[ip] = store[ip]

CountsWithinLimit ==
    \A ip \in DOMAIN store' :
        store'[ip].count >= 1 /\ store'[ip].count <= RATE_LIMIT_ATTEMPTS

\* C8: from no bucket, the checks of one client address before the bucket's
\* reset instant are admitted while its count is below RATE_LIMIT_ATTEMPTS
\* (each adding one, the first setting the reset instant), every further one
\* is rejected and leaves the bucket alone, and a check at or after the reset
\* instant is admitted and starts a window with count 1.
C8_ExactlyLimitPerWindow ==
    [][/\ (LoginStep /\ tasks'["t1"].request.present
                     /\ tasks'["t1"].request.client # NoClient)
          => WindowStep(tasks'["t1"].request.client,
                        tasks'["t1"].status = 429)
       /\ CountsWithinLimit]_vars

\* C8 witness: an address has used its RATE_LIMIT_ATTEMPTS admissions and
\* its next login, before the reset instant, was rejected.
C8_Witness ==
    LET tk == tasks["t1"]
    IN  /\ tk.op = "login" /\ tk.pc = "done" /\ tk.status = 429
        /\ tk.request.client \in DOMAIN store
        /\ store[tk.request.client].count = RATE_LIMIT_ATTEMPTS
        /\ now < store[tk.request.client].reset_at
        /\ audit.n > RATE_LIMIT_ATTEMPTS

\* C9: with requests handled concurrently, every admission of a request is
\* one atomic step on its address's bucket (count + 1 inside the window, 1
\* at a new window), no other step changes a count, and no count ever
\* exceeds RATE_LIMIT_ATTEMPTS: at most that many are admitted per window.
C9_AtomicBucketUpdate ==
    [][/\ \A t \in Tasks :
            (tasks[t].pc \in {"idle", "done"}
                /\ tasks'[t].pc \in {"lookup", "audit_rate"})
            => WindowStep(tasks'[t].request.client,
                          tasks'[t].pc = "audit_rate")
       /\ (\A t \in Tasks : tasks[t].pc \in {"idle", "done"}
                               => tasks'[t].pc \in {"idle", "done"})
            => \A ip \in DOMAIN store' :
                  ip \in DOMAIN store /\ store'[ip] = store[ip]
       /\ CountsWithinLimit]_vars

\* C9 witness: two requests of one address are in flight at once, the bucket
\* is full, and the later one has been refused.
C9_Witness ==
    /\ tasks["t1"].pc \notin {"idle", "done", "audit_rate"}
    /\ tasks["t2"].pc = "audit_rate"
    /\ tasks["t1"].request = tasks["t2"].request
    /\ store[tasks["t2"].request.client].count = RATE_LIMIT_ATTEMPTS

\* C10 as claimed: a login with no resolvable client address (no request, or
\* a request without .client) is never rejected by the rate limiter and
\* neither creates nor changes a bucket.
C10_NoAddressNeverLimited ==
    [][(LoginStep /\ (~tasks'["t1"].request.present
                        \/ tasks'["t1"].request.client = NoClient))
         => /\ tasks'["t1"].status # 429
            /\ \A ip \in DOMAIN store' :
                  ip \in DOMAIN store /\ store'[ip] = store[ip]]_vars

\* The soft-deleted principals an identifier names.
DeletedTargets(kind, identifier) ==
    {i \in 1..Len(Table(kind)) :
        /\ Table(kind)[i].deleted_at # NULL
        /\ (Table(kind)[i].username = identifier
            \/ Table(kind)[i].email = identifier)}

\* Rows are never removed and a soft-deleted row stays soft-deleted.
RowsKept ==
    \A k \in Kinds :
       /\ Len(TableNext(k)) >= Len(Table(k))
       /\ \A i \in 1..Len(Table(k)) :
             Table(k)[i].deleted_at # NULL =>
                TableNext(k)[i].deleted_at = Table(k)[i].deleted_at

\* C11 as claimed: a login whose identifier is the username or the email of
\* a soft-deleted principal returns no token, and is answered "Invalid
\* credentials" when the rate limiter admits it, whatever the password; the
\* soft-deleted row is never removed.
C11_DeletedNeverLogsIn ==
    [][/\ RowsKept
       /\ LoginStep =>
            LET tk == tasks'["t1"]
            IN  DeletedTargets(tk.kind, tk.identifier) # {}
                => /\ tk.token = NoToken
                   /\ Admitted(tk.request) =>
                         (tk.status = 401 /\ tk.detail = "Invalid credentials")
      ]_vars

\* The conflict error register owes to these inputs against this table: the
\* first of username, email, phone (when provided) that a non-deleted row
\* already has; "" when none has.
ConflictOf(tbl, username, email, phone) ==
    LET live == {i \in 1..Len(tbl) : tbl[i].deleted_at = NULL}
    IN  IF \E i \in live : tbl[i].username = username
        THEN "Username already exists"
        ELSE IF \E i \in live : tbl[i].email = email
        THEN "Email already exists"
        ELSE IF phone # NoPhone /\ \E i \in live : tbl[i].phone = phone
        THEN "Phone number already exists"
        ELSE ""

\* A conflicting registration is answered with its conflict error and
\* changes neither table.
ConflictRefused(tbl, username, email, phone) ==
    ConflictOf(tbl, username, email, phone) # ""
    => /\ tasks'["t1"].status = 409
       /\ tasks'["t1"].detail = ConflictOf(tbl, username, email, phone)
       /\ users' = users /\ admins' = admins

\* C12: register checks username, then email, then phone (only when
\* provided) against the non-deleted principals; the first check that fails
\* gives its conflict error, no principal is created and the tables are
\* unchanged.
C12_RegisterConflictOrder ==
    [][\A u \in Names, e \in Emails, ph \in Phones :
          /\ RegisterUser(u, e, "pw1", ph) => ConflictRefused(users, u, e, ph)
          /\ RegisterAdmin(u, e, "pw1", ph) => ConflictRefused(admins, u, e, ph)
      ]_vars

\* A registration refused for its phone number alone while the table also
\* holds a soft-deleted row.
C12_Witness ==
    /\ tasks["t1"].op = "register" /\ tasks["t1"].kind = "user"
    /\ tasks["t1"].status = 409
    /\ tasks["t1"].detail = "Phone number already exists"
    /\ \E i \in 1..Len(users) : users[i].deleted_at # NULL

\* C13: in every state reached by concurrent registrations and profile
\* updates, no two rows of a table, soft-deleted or not, have the same
\* username, the same email or the same non-null phone.
C13_StorageUniqueness ==
    \A k \in Kinds : \A i, j \in 1..Len(Table(k)) :
       i # j => /\ Table(k)[i].username # Table(k)[j].username
                /\ Table(k)[i].email # Table(k)[j].email
                /\ \/ Table(k)[i].phone = NoPhone
                   \/ Table(k)[i].phone # Table(k)[j].phone

\* A request passed the application's checks and was refused by the unique
\* index, because a concurrent request wrote the same email to a live row
\* in between.
C13_Witness ==
    \E t \in Tasks :
       /\ tasks[t].pc = "done" /\ tasks[t].status = 409
       /\ tasks[t].detail = "Resource already exists"
       /\ \E i \in 1..Len(users) :
             users[i].deleted_at = NULL /\ users[i].email = tasks[t].email

\* The roles of an admin that hold a permission with exactly this resource
\* and this action.
GrantingRoles(admin_id, resource, action) ==
    {r \in 1..Len(rbac.roles) :
        /\ <<admin_id, r>> \in rbac.admin_roles
        /\ \E p \in 1..Len(rbac.permissions) :
              /\ p \in rbac.roles[r].permissions
              /\ rbac.permissions[p].resource = resource
              /\ rbac.permissions[p].action = action}

\* C14: admin_has_permission(admin, resource, action) is true exactly when
\* one of the admin's roles is active and has a permission with that
\* resource and that action; so it is false for an admin with no roles and
\* false when every granting role is inactive.
C14_HasPermissionIffActiveGrant ==
    [][\A id \in 1..Len(admins), pair \in Pairs :
          PermissionCheck("admin_has_permission", id, <<pair>>)
          => (tasks'["t1"].granted
              <=> \E r \in GrantingRoles(id, pair[1], pair[2]) :
                     rbac.roles[r].is_active)]_vars

\* The resolver refused an admin whose only granting role is inactive, while
\* the admin has an active role too.
C14_Witness ==
    LET tk == tasks["t1"]
    IN  /\ tk.op = "admin_has_permission" /\ ~tk.granted
        /\ GrantingRoles(tk.user.id, tk.permissions[1][1],
                         tk.permissions[1][2]) # {}
        /\ \E r \in 1..Len(rbac.roles) :
              <<tk.user.id, r>> \in rbac.admin_roles /\ rbac.roles[r].is_active

\* The admin has no active role, or none of its roles has a permission.
FailClosedCase(admin_id) ==
    LET mine == {r \in 1..Len(rbac.roles) : <<admin_id, r>> \in rbac.admin_roles}
    IN  \/ \A r \in mine : ~rbac.roles[r].is_active
        \/ \A r \in mine : rbac.roles[r].permissions = {}

\* C15 as claimed: for an admin with no active role, or whose roles all have
\* an empty permission set, admin_has_permission, admin_has_any_permission
\* and admin_has_all_permissions answer false for every pair and every list
\* of pairs.
C15_FailClosed ==
    [][\A fn \in ResolverFns, id \in 1..Len(admins), ps \in PairLists :
          (PermissionCheck(fn, id, ps) /\ FailClosedCase(id))
          => ~tasks'["t1"].granted]_vars

\* The admin route handlers that write to users, roles, permissions,
\* admin_roles or collections.
AdminWrites ==
    {"block_user", "activate_user", "create_permission", "create_role",
     "update_role", "assign_roles_to_admin", "create_collection"}

\* C16 as claimed, in its weakest reading: when an admin route changes
\* users, roles, permissions, role assignments or collections, the resolver
\* grants the acting admin some (resource, action) at that time.
C16_AdminWritesNeedPermission ==
    [][(/\ tasks'["t1"].op \in AdminWrites
        /\ <<users, rbac, collections>> # <<users', rbac', collections'>>)
       => \E p \in 1..Len(rbac.permissions) :
             admin_has_permission(rbac, current_admin_id(held.token, Shared),
                                  rbac.permissions[p].resource,
                                  rbac.permissions[p].action)]_vars

InactiveDetails == {"User account is inactive", "Admin account is inactive"}

\* C17 as claimed, for the logins that the rate limiter admits and whose
\* identifier names one principal: when that principal is not deleted, not
\* locked at the current time and inactive, and the password is its
\* password, the answer is the account-inactive error (403) with no token,
\* and the principal's failed-attempt counter and locked_until are unchanged.
C17_InactiveRefusedUntouched ==
    [][LoginStep =>
         LET tk == tasks'["t1"]
         IN  \A i \in 1..Len(Table(tk.kind)) :
                LET row == Table(tk.kind)[i]
                IN  (/\ Targets(tk.kind, tk.identifier) = {i}
                     /\ Admitted(tk.request)
                     /\ ~LockedAt(row, now)
                     /\ ~row.is_active
                     /\ verify_password(tk.password, row.hashed_password))
                    => /\ tk.status = 403
                       /\ tk.detail \in InactiveDetails
                       /\ tk.token = NoToken
                       /\ TableNext(tk.kind)[i].failed_login_attempts
                             = row.failed_login_attempts
                       /\ TableNext(tk.kind)[i].locked_until
                             = row.locked_until]_vars

\* The external outcome of InvalidCredentials.
InvalidCredentials(tk) ==
    tk.status = 401 /\ tk.detail = "Invalid credentials" /\ tk.token = NoToken

\* C18 as claimed, for the logins that the rate limiter admits: a login
\* whose identifier names no non-deleted principal, and a login with a wrong
\* password for an existing principal that is not locked and whose counter
\* stays below MAX_LOGIN_ATTEMPTS, both get the same outcome: 401 "Invalid
\* credentials".
C18_UnknownAndWrongPasswordAlike ==
    [][(LoginStep /\ Admitted(tasks'["t1"].request)) =>
         LET tk == tasks'["t1"]
         IN  /\ Targets(tk.kind, tk.identifier) = {} => InvalidCredentials(tk)
             /\ \A i \in Targets(tk.kind, tk.identifier) :
                   LET row == Table(tk.kind)[i]
                   IN  (/\ row.locked_until = NULL
                        /\ row.failed_login_attempts + 1 < MAX_LOGIN_ATTEMPTS
                        /\ ~verify_password(tk.password, row.hashed_password))
                       => InvalidCredentials(tk)]_vars

\* The step is one whole login request handled while the audit table cannot
\* be written, answered in tasks'["t1"].
LoginAuditDownStep ==
    LET tk == tasks'["t1"]
    IN  /\ tk.op = "login" /\ tk.audit_fails
        /\ LoginAuditDown(tk.kind, tk.identifier, tk.password, tk.request)

\* C19 as claimed: a login handled while the audit write fails has the
\* outcome of the same login handled while it succeeds: the same status and
\* error, a token when that one has a token, and the same rows in the
\* principal tables.
C19_AuditFailureKeepsOutcome ==
    [][LoginAuditDownStep =>
         LET tk == tasks'["t1"]
             ok == RunLogin(NewLogin(tk.kind, tk.identifier, tk.password,
                                     tk.request), Shared)
         IN  /\ tk.status = ok.tk.status
             /\ tk.detail = ok.tk.detail
             /\ (tk.token # NoToken) = (ok.tk.token # NoToken)
             /\ users' = ok.S.users /\ admins' = ok.S.admins]_vars

\* C20 as claimed: every login that is answered appends exactly one audit
\* entry, a login entry whose success flag is true exactly when the answer
\* carries a token; and no step removes an audit entry.
C20_OneAuditEntryPerLogin ==
    [][/\ audit'.n >= audit.n
       /\ LoginStep =>
            /\ audit'.n = audit.n + 1
            /\ audit'.last.action = "LOGIN"
            /\ audit'.last.success = (tasks'["t1"].token # NoToken)]_vars

\* C21: decoding a token made by create_access_token gives its subject at
\* every time before iat + ACCESS_TOKEN_EXPIRE_MINUTES and None at every time
\* after it; a token whose signature does not match, or without sub or
\* without exp, gives None at every time.
C21_TokenRoundTrip ==
    [][DecodeToken =>
         LET tok == held.token
             out == tasks'["t1"].token
         IN  /\ \A sub \in Subjects, iat \in 0..MaxTimeTok :
                   tok = create_access_token(sub, iat)
                   => /\ now < iat + ACCESS_TOKEN_EXPIRE_MINUTES
                            => (out # NoToken /\ out.sub = sub)
                      /\ now > iat + ACCESS_TOKEN_EXPIRE_MINUTES
                            => out = NoToken
             /\ (~tok.signed \/ tok.sub = "" \/ tok.exp = NULL)
                   => out = NoToken]_vars

\* A token made by create_access_token was decoded after its expiry and gave
\* None.
C21_Witness ==
    /\ tasks["t1"].op = "decode_access_token"
    /\ tasks["t1"].token = NoToken
    /\ \E sub \in Subjects, iat \in 0..MaxTimeTok :
          /\ held.token = create_access_token(sub, iat)
          /\ now > iat + ACCESS_TOKEN_EXPIRE_MINUTES

\* The outcome the gate order gives a login whose identifier names at most
\* one principal: the first gate that fails decides.
GateOutcome(tk) ==
    LET tbl == Table(tk.kind)
        ids == Targets(tk.kind, tk.identifier)
        row == tbl[CHOOSE i \in ids : TRUE]
        after == TableNext(tk.kind)[CHOOSE i \in ids : TRUE]
    IN  IF ~Admitted(tk.request)
        THEN tk.status = 429 /\ tk.token = NoToken
        ELSE IF ids = {} THEN InvalidCredentials(tk)
        ELSE IF LockedAt(row, now)
        THEN /\ tk.status = 401 /\ tk.detail \in LockedDetails
             /\ tk.token = NoToken
        ELSE IF ~verify_password(tk.password, row.hashed_password)
        THEN /\ InvalidCredentials(tk)
             /\ after.failed_login_attempts = row.failed_login_attempts + 1
        ELSE IF ~row.is_active
        THEN /\ tk.status = 403 /\ tk.detail \in InactiveDetails
             /\ tk.token = NoToken
        ELSE tk.status = 200 /\ tk.token # NoToken

\* C22 as claimed, for identifiers that name at most one principal: the
\* outcome of a login is that of the first failing gate in the order rate
\* limit, lookup, lock check, password, active flag, and a token when none
\* fails.
C22_FirstFailingGateDecides ==
    [][LoginStep =>
         LET tk == tasks'["t1"]
         IN  Cardinality(Targets(tk.kind, tk.identifier)) <= 1
             => GateOutcome(tk)]_vars


\* Task t commits a wrong-password failure in this step.
FailureCommit(t) ==
    tasks[t].pc = "commit_failure" /\ tasks'[t].pc = "audit_failure"

\* C23: with logins handled concurrently, the commit of a wrong-password
\* login stores the counter of the copy the request loaded plus one, whatever
\* the row holds by then, so two logins that both loaded the counter c before
\* either committed leave c + 1 in the row.
C23_FailureWritesLoadedPlusOne ==
    [][\A t \in Tasks : FailureCommit(t) =>
          TableNext(tasks[t].kind)[tasks[t].user.id].failed_login_attempts
             = tasks[t].loaded.failed_login_attempts + 1]_vars

\* C23 witness: two wrong-password logins for one principal with counter 0
\* have both been answered, two failures are in the audit log, and the stored
\* counter is 1.
C23_Witness ==
    /\ \A t \in Tasks : /\ tasks[t].pc = "done" /\ tasks[t].status = 401
                         /\ tasks[t].detail = "Invalid credentials"
    /\ audit.n = 2
    /\ \E k \in Kinds : /\ \A t \in Tasks : tasks[t].kind = k
                         /\ Table(k)[1].failed_login_attempts = 1


\* C24: a login that the rate limiter rejects leaves the bucket of its
\* address as it was: same count, same reset instant.
C24_RejectionLeavesBucket ==
    [][(LoginStep /\ tasks'["t1"].status = 429)
         => LET ip == client_ip_of(tasks'["t1"].request)
            IN  /\ ip \in DOMAIN store /\ ip \in DOMAIN store'
                /\ store'[ip] = store[ip]]_vars

\* C24 witness: a login was rejected at an instant after its bucket's window
\* had begun, and the bucket still ends when that window ends.
C24_Witness ==
    LET tk == tasks["t1"]
        ip == client_ip_of(tk.request)
    IN  /\ tk.op = "login" /\ tk.pc = "done" /\ tk.status = 429
        /\ ip \in DOMAIN store
        /\ store[ip].reset_at - RATE_LIMIT_WINDOW_MINUTES < now
        /\ now < store[ip].reset_at

\* C25: after a login that carries a request, checked at instant now, the
\* store holds no bucket whose reset instant is before now, and every bucket
\* of another key whose reset instant is not before now is as it was.
C25_ExpiredEvictedOthersKept ==
    [][(LoginStep /\ tasks'["t1"].request.present)
         => /\ \A ip \in DOMAIN store' : store'[ip].reset_at >= now
            /\ \A ip \in DOMAIN store :
                  (ip # client_ip_of(tasks'["t1"].request)
                      /\ store[ip].reset_at >= now)
                  => ip \in DOMAIN store' /\ store'[ip] = store[ip]]_vars

\* C25 witness: the last login began a window for its address at now, the
\* only other bucket is one of another address that began earlier and has
\* not ended, and a third login's bucket is gone.
C25_Witness ==
    LET tk == tasks["t1"]
        ip == client_ip_of(tk.request)
    IN  /\ tk.op = "login" /\ tk.pc = "done" /\ tk.request.present
        /\ ip \in DOMAIN store /\ Cardinality(DOMAIN store) = 2
        /\ store[ip] = [count |-> 1,
                        reset_at |-> now + RATE_LIMIT_WINDOW_MINUTES]
        /\ \E other \in DOMAIN store \ {ip} :
              /\ store[other].count = 1
              /\ now <= store[other].reset_at
              /\ store[other].reset_at < now + RATE_LIMIT_WINDOW_MINUTES
        /\ audit.n = 3


\* Row i of table k has its failed-attempt counter or its locked_until
\* changed by the step.
LockFieldsChange(k, i) ==
    \/ TableNext(k)[i].failed_login_attempts # Table(k)[i].failed_login_attempts
    \/ TableNext(k)[i].locked_until # Table(k)[i].locked_until

\* The step is a login naming row i of table k that ended as a wrong
\* password (counter plus one, locked_until kept or set) or as a success
\* (counter 0, locked_until null).
CountingLogin(k, i) ==
    LET tk == tasks'["t1"]
        row == Table(k)[i]
        after == TableNext(k)[i]
    IN  /\ tk.op = "login" /\ tk.kind = k
        /\ i \in Targets(k, tk.identifier)
        /\ \/ /\ InvalidCredentials(tk)
              /\ ~verify_password(tk.password, row.hashed_password)
              /\ after.failed_login_attempts = row.failed_login_attempts + 1
              /\ after.locked_until
                    \in {row.locked_until, now + LOCKOUT_DURATION_MINUTES}
           \/ /\ tk.status = 200
              /\ after.failed_login_attempts = 0
              /\ after.locked_until = NULL

\* The operations and login outcomes the claim lists as leaving the fields
\* alone.
LeavesLockFields ==
    LET tk == tasks'["t1"]
    IN  \/ tk.op \in {"register", "update", "activate_user", "block_user",
                       "delete_me"}
        \/ /\ tk.op = "login"
           /\ \/ tk.status = 429
              \/ tk.status = 401 /\ Targets(tk.kind, tk.identifier) = {}

\* C26: a step changes the failed-attempt counter or locked_until of a
\* principal only if it is a login naming that principal that ends as a wrong
\* password or as a success; registrations, profile updates, activate,
\* block, account deletion and logins that end rate-limited or with an
\* unknown identifier leave both fields of every principal unchanged.
C26_LockFieldsFrame ==
    [][/\ \A k \in Kinds : \A i \in 1..Len(Table(k)) :
             LockFieldsChange(k, i) => CountingLogin(k, i)
       /\ (tasks' # tasks /\ LeavesLockFields)
             => \A k \in Kinds : \A i \in 1..Len(Table(k)) :
                   ~LockFieldsChange(k, i)]_vars

\* C26 witness: a user with failed attempts on record has been blocked and
\* the counter is still there.
C26_Witness ==
    /\ tasks["t1"].op = "block_user" /\ tasks["t1"].status = 200
    /\ ~users[1].is_active
    /\ users[1].failed_login_attempts > 0


\* The lockout fields of a row.
LockFields(row) == <<row.failed_login_attempts, row.locked_until>>

\* The bucket of an address in a store, or no bucket.
BucketOf(st, ip) == IF ip \in DOMAIN st THEN <<st[ip]>> ELSE <<>>

\* The audit entries a login appended, as (number, success flag, entity id).
AuditAdded(before, after) ==
    IF after.n = before.n THEN <<0>>
    ELSE <<after.n - before.n, after.last.success, after.last.entity_id>>

\* C27: the same (identifier, password, time) posted to the user login and
\* to the admin login, from corresponding principal, bucket and audit states,
\* takes both through the same segments (gate decisions), gives the same
\* status and token, leaves the two principals with the same counter and
\* locked_until and the two buckets equal, and appends audit entries with the
\* same success flag and entity id.
C27_LoginServicesAgree ==
    [][LET ut == tasks'["t1"]
           at == tasks'["t2"]
       IN  (at.op = "login" /\ TwinLogin(ut.identifier, ut.password,
                                         ut.request, at.request)) =>
             LET u0 == NewLogin("user", ut.identifier, ut.password, ut.request)
                 a0 == NewLogin("admin", ut.identifier, ut.password, at.request)
                 mid == RunLogin(u0, Shared).S
             IN  /\ Segments(u0, Shared) = Segments(a0, mid)
                 /\ ut.status = at.status
                 /\ ut.token = at.token
                 /\ \A r \in 1..Len(users') :
                       LockFields(users'[r]) = LockFields(admins'[r])
                 /\ ut.request.present =>
                       BucketOf(store', ut.request.client)
                          = BucketOf(store', at.request.client)
                 /\ AuditAdded(audit, mid.audit) = AuditAdded(mid.audit, audit')]_vars

\* C27 witness: the same wrong password has just locked the user and the
\* admin, both answered with invalid credentials.
C27_Witness ==
    /\ tasks["t1"].kind = "user" /\ tasks["t2"].kind = "admin"
    /\ InvalidCredentials(tasks["t1"]) /\ InvalidCredentials(tasks["t2"])
    /\ users[1].failed_login_attempts = MAX_LOGIN_ATTEMPTS
    /\ users[1].locked_until = now + LOCKOUT_DURATION_MINUTES
    /\ LockFields(admins[1]) = LockFields(users[1])


\* The lock of a row has expired at t: locked_until is set and not later
\* than t.
LockExpiredAt(row, t) == row.locked_until # NULL /\ row.locked_until <= t

\* C28 as claimed, for the logins that the rate limiter admits and whose
\* identifier names one principal: a principal whose lock has expired still
\* has a counter of at least MAX_LOGIN_ATTEMPTS, and a wrong-password login
\* against it adds one to the counter and sets locked_until to the time of
\* the attempt + LOCKOUT_DURATION.
C28_ExpiredLockRelocks ==
    [][LoginStep =>
         LET tk == tasks'["t1"]
         IN  \A i \in 1..Len(Table(tk.kind)) :
                (/\ Targets(tk.kind, tk.identifier) = {i}
                 /\ Admitted(tk.request)
                 /\ LockExpiredAt(Table(tk.kind)[i], now)
                 /\ ~verify_password(tk.password,
                                     Table(tk.kind)[i].hashed_password))
                => /\ Table(tk.kind)[i].failed_login_attempts
                         >= MAX_LOGIN_ATTEMPTS
                   /\ TableNext(tk.kind)[i].failed_login_attempts
                         = Table(tk.kind)[i].failed_login_attempts + 1
                   /\ TableNext(tk.kind)[i].locked_until
                         = now + LOCKOUT_DURATION_MINUTES]_vars


\* C29: with registrations and logins handled one at a time, every
\* principal's failed-attempt counter is at least 0, and its locked_until is
\* set only when the counter is at least MAX_LOGIN_ATTEMPTS.
C29_LockedOnlyAtThreshold ==
    \A k \in Kinds : \A i \in 1..Len(Table(k)) :
        /\ Table(k)[i].failed_login_attempts >= 0
        /\ Table(k)[i].locked_until # NULL
              => Table(k)[i].failed_login_attempts >= MAX_LOGIN_ATTEMPTS

\* C29 witness: a user has been locked at the threshold and the lock has
\* since expired, while the admin registered beside it has failures below
\* the threshold and no lock.
C29_Witness ==
    /\ Len(users) >= 1 /\ Len(admins) >= 1
    /\ users[1].failed_login_attempts = MAX_LOGIN_ATTEMPTS
    /\ LockExpiredAt(users[1], now)
    /\ admins[1].failed_login_attempts > 0
    /\ admins[1].locked_until = NULL


\* The token is signed, not expired at the current time, and its subject is
\* the username of a row of table k that is not deleted and is active.
TokenValidFor(k, token) ==
    /\ token.signed /\ token.exp # NULL /\ now < token.exp
    /\ \E i \in 1..Len(Table(k)) :
          /\ Table(k)[i].username = token.sub
          /\ Table(k)[i].deleted_at = NULL
          /\ Table(k)[i].is_active

\* C30: a request to a user endpoint (admin endpoint) is let through with
\* its bearer token exactly when the token is validly signed, not expired,
\* and its subject is at that time the username of a non-deleted, active
\* user (admin); whether that principal is locked plays no part.
C30_TokenAcceptedIffLivePrincipal ==
    [][LET tk == tasks'["t1"]
       IN  /\ (tk.op = "get_my_profile" /\ GetMyProfile(tk.token))
                => (tk.status = 200 <=> TokenValidFor("user", tk.token))
           /\ (tk.op = "get_admin_profile" /\ GetAdminProfile(tk.token))
                => (tk.status = 200 <=> TokenValidFor("admin", tk.token))]_vars

\* C30 witness: a token issued to alice at time 0 is accepted after alice
\* was blocked and reactivated, while alice is locked out.
C30_Witness ==
    LET tk == tasks["t1"]
    IN  /\ tk.op = "get_my_profile" /\ tk.status = 200
        /\ tk.token = create_access_token("alice", 0)
        /\ audit.last.action = "ACTIVATE"
        /\ LockedAt(users[1], now)

============================================================================
